---------------------------- MODULE Spec2Model ----------------------------
(***************************************************************************)
(* Model of the odds-comparison engine of the NBA dashboard backend        *)
(* (src/backend/src/routes/line_shopping.rs): the odds math, the           *)
(* game-state filter and the top-picks screener.                           *)
(*                                                                         *)
(* Numbers.  The code computes in f64; the model computes in exact         *)
(* rationals <<n, d>> (d > 0, lowest terms).  i32 odds keep their width:   *)
(* abs() wraps at I32Min as the optimised build does.  Percentages that    *)
(* the code rounds to one decimal are modelled by the rounded integer      *)
(* number of tenths.                                                       *)
(***************************************************************************)
EXTENDS Integers, Sequences, FiniteSets, TLC

VARIABLES
    fn,          \* the pure function under call in the function harness
    args,        \* its arguments
    ret,         \* its return value, NoRet before the call returns
    clock,       \* the wall clock: index of the current instant in Instants
    elapsed,     \* clock ticks since the request arrived
    server_tz,   \* UTC offset (minutes) of the server's local time zone
    pc,          \* position of the top-picks request
    query,       \* the request's game_date parameter (None when omitted)
    game_date,   \* the resolved game date of the request
    all_rows,    \* rows returned by db::get_top_pick_candidates
    started,     \* has_game_started's answer for each row tested so far
    hash_order,  \* iteration order HashMap::into_values produced
    collected,   \* the picks filter_map yielded, before the sort and the cut
    picks,       \* the response's picks list
    db,          \* the SQLite tables a matchup request reads
    fetched      \* the row sequences its queries returned

vars == <<fn, args, ret, clock, elapsed, server_tz, pc, query, game_date, all_rows,
          started, hash_order, collected, picks, db, fetched>>

\* Option<T>: None is the empty tuple, Some(x) the one-element tuple.
None == <<>>
Some(x) == <<x>>
IsSome(o) == o # None
Unwrap(o) == o[1]

\* The harness's ret before the call has returned; <<v>> once v is returned.
NoRet == <<>>

------------------------------------------------------------------------------
(* Exact rationals.                                                        *)

RECURSIVE GCD(_, _)
GCD(a, b) == IF b = 0 THEN a ELSE GCD(b, a % b)

\* n/d in lowest terms with a positive denominator (d # 0).
Rat(n, d) ==
    LET dd == IF d < 0 THEN -d ELSE d
        g  == GCD(dd, n % dd)
        q  == n \div g
    IN  <<IF d < 0 THEN -q ELSE q, dd \div g>>

\* Three-way comparison by continued fractions: no product is formed, so
\* operands near the 32-bit limit compare without overflow.
RECURSIVE RCmp(_, _)
RCmp(a, b) ==
    LET q1 == a[1] \div a[2]
        q2 == b[1] \div b[2]
        r1 == a[1] % a[2]
        r2 == b[1] % b[2]
    IN  IF q1 # q2 THEN (IF q1 < q2 THEN -1 ELSE 1)
        ELSE IF r1 = 0 /\ r2 = 0 THEN 0
        ELSE IF r1 = 0 THEN -1
        ELSE IF r2 = 0 THEN 1
        ELSE RCmp(<<b[2], r2>>, <<a[2], r1>>)

RLt(a, b) == RCmp(a, b) = -1
RLe(a, b) == RCmp(a, b) # 1
RGt(a, b) == RCmp(a, b) = 1
RGe(a, b) == RCmp(a, b) # -1

\* Sums over the least common denominator and quotients with the common
\* factors cancelled first, which keeps the intermediate products small.
RAdd(a, b) ==
    LET g == GCD(a[2], b[2])
    IN  Rat(a[1] * (b[2] \div g) + b[1] * (a[2] \div g), (a[2] \div g) * b[2])
RNeg(a) == <<-a[1], a[2]>>
RSub(a, b) == RAdd(a, RNeg(b))
RDiv(a, b) ==
    LET gn == GCD(IF a[1] < 0 THEN -a[1] ELSE a[1], b[1])
        gd == GCD(a[2], b[2])
    IN  Rat((a[1] \div gn) * (b[2] \div gd), (a[2] \div gd) * (b[1] \div gn))
RAbs(a) == IF a[1] < 0 THEN <<-a[1], a[2]>> ELSE a
RZero == <<0, 1>>
ROne == <<1, 1>>

\* f64::round of a non-negative value: half rounds away from zero.
RoundNat(a) == (2 * a[1] + a[2]) \div (2 * a[2])

\* (x * 1000.0).round() / 10.0, kept as the integer number of tenths.
Tenths(x) == RoundNat(<<x[1] * 1000, x[2]>>)

------------------------------------------------------------------------------
(* Odds math.                                                              *)

I32Min == -2147483647 - 1

\* i32::abs without overflow checks: the one value with no positive
\* counterpart is returned unchanged.
abs_i32(x) == IF x = I32Min THEN I32Min ELSE IF x < 0 THEN -x ELSE x

implied_prob(odds) ==
    IF odds < 0
    THEN LET o == abs_i32(odds) IN Rat(o, o + 100)
    ELSE Rat(100, odds + 100)

NegligibleTotal == <<1, 1000>>

\* devigged_over_prob without the negligible-total guard.
devigged_over_prob_unguarded(over_odds, under_odds) ==
    IF over_odds = None \/ under_odds = None THEN None
    ELSE LET over  == implied_prob(Unwrap(over_odds))
             under == implied_prob(Unwrap(under_odds))
         IN  Some(RDiv(over, RAdd(over, under)))

\* devigged_over_prob returning the over side's implied probability as is.
devigged_over_prob_with_vig(over_odds, under_odds) ==
    IF over_odds = None \/ under_odds = None THEN None
    ELSE LET over  == implied_prob(Unwrap(over_odds))
             under == implied_prob(Unwrap(under_odds))
             total == RAdd(over, under)
         IN  IF RLt(total, NegligibleTotal) THEN None ELSE Some(over)

devigged_over_prob(over_odds, under_odds) ==
    IF over_odds = None \/ under_odds = None THEN None
    ELSE LET over  == implied_prob(Unwrap(over_odds))
             under == implied_prob(Unwrap(under_odds))
             total == RAdd(over, under)
         IN  IF RLt(total, NegligibleTotal) THEN None
             ELSE Some(RDiv(over, total))


------------------------------------------------------------------------------
(* Wall clock and civil time.                                              *)

\* Consecutive civil dates <<year, month, day>>; a day number indexes them.
Days == <<<<2024, 12, 30>>, <<2024, 12, 31>>, <<2025, 1, 1>>, <<2025, 1, 2>>>>

MinutesPerDay == 1440

\* UTC offset of America/New_York in minutes (Eastern Standard Time).
EtOffset == -300

\* A UTC instant <<day number, minute of the day>> for an Eastern wall time.
EtInstant(day, hour, minute) ==
    LET m == hour * 60 + minute - EtOffset
    IN  <<day + (m \div MinutesPerDay), m % MinutesPerDay>>

\* The Eastern wall times <<day number, hour, minute>> the clock passes
\* through, in order.
EtWall ==
    << <<1, 23, 59>>,
       <<2, 0, 0>>,   <<2, 0, 29>>,  <<2, 0, 30>>,
       <<2, 10, 4>>,  <<2, 10, 5>>,
       <<2, 12, 14>>, <<2, 12, 15>>,
       <<2, 13, 0>>,
       <<2, 19, 29>>, <<2, 19, 30>>, <<2, 19, 31>>,
       <<2, 20, 0>>,
       <<2, 23, 58>>, <<2, 23, 59>>,
       <<3, 0, 0>> >>

\* The same instants as the system clock reports them (UTC).
Instants == [i \in 1..Len(EtWall) |->
                EtInstant(EtWall[i][1], EtWall[i][2], EtWall[i][3])]

\* DateTime::with_timezone: the civil date and time of a UTC instant in the
\* zone with the given offset, as [date, hour, minute].
with_timezone(instant, offset) ==
    LET m   == instant[2] + offset
        day == instant[1] + (m \div MinutesPerDay)
        mod == m % MinutesPerDay
    IN  [date |-> Days[day], hour |-> mod \div 60, minute |-> mod % 60]

\* chrono::Utc::now()
utc_now == Instants[clock]

------------------------------------------------------------------------------
(* Game-state filter.  Strings are sequences of one-character strings.     *)

Digit == {"0", "1", "2", "3", "4", "5", "6", "7", "8", "9"}
DigitVal(c) ==
    CASE c = "0" -> 0 [] c = "1" -> 1 [] c = "2" -> 2 [] c = "3" -> 3
      [] c = "4" -> 4 [] c = "5" -> 5 [] c = "6" -> 6 [] c = "7" -> 7
      [] c = "8" -> 8 [] c = "9" -> 9

\* The regex class \s on the characters used here.
Space == {" ", "\t"}

\* str::parse::<u32> of a run of ASCII digits.
RECURSIVE parse_u32(_)
parse_u32(ds) ==
    IF ds = <<>> THEN 0
    ELSE 10 * parse_u32(SubSeq(ds, 1, Len(ds) - 1)) + DigitVal(ds[Len(ds)])

IsDigitAt(s, i) == i >= 1 /\ i <= Len(s) /\ s[i] \in Digit
CharAt(s, i, c) == i >= 1 /\ i <= Len(s) /\ s[i] = c

\* \s* is greedy: the first position at or after i that holds no space.
RECURSIVE SkipSpace(_, _)
SkipSpace(s, i) ==
    IF i <= Len(s) /\ s[i] \in Space THEN SkipSpace(s, i + 1) ELSE i

Meridiems == {<<"A", "M">>, <<"P", "M">>, <<"a", "m">>, <<"p", "m">>}

\* str::to_uppercase on a captured meridiem.
to_uppercase(m) == IF m \in {<<"A", "M">>, <<"a", "m">>}
                   THEN <<"A", "M">> ELSE <<"P", "M">>

\* :(\d{2})\s*(AM|PM|am|pm) at position j of s, after the hour digits h.
MatchTail(s, h, j) ==
    IF CharAt(s, j, ":") /\ IsDigitAt(s, j + 1) /\ IsDigitAt(s, j + 2)
    THEN LET k == SkipSpace(s, j + 3)
         IN  IF k + 1 <= Len(s) /\ SubSeq(s, k, k + 1) \in Meridiems
             THEN Some([hours |-> h, minutes |-> SubSeq(s, j + 1, j + 2),
                        am_pm |-> SubSeq(s, k, k + 1)])
             ELSE None
    ELSE None

\* (\d{1,2}):(\d{2})\s*(AM|PM|am|pm) anchored at position i: the greedy
\* two-digit hour first, then the one-digit hour.
MatchAt(s, i) ==
    LET two == IF IsDigitAt(s, i) /\ IsDigitAt(s, i + 1)
               THEN MatchTail(s, SubSeq(s, i, i + 1), i + 2) ELSE None
        one == IF IsDigitAt(s, i)
               THEN MatchTail(s, SubSeq(s, i, i), i + 1) ELSE None
    IN  IF two # None THEN two ELSE one

\* Regex::captures: the match at the leftmost position that has one.
RECURSIVE captures_from(_, _)
captures_from(s, i) ==
    IF i > Len(s) THEN None
    ELSE IF MatchAt(s, i) # None THEN MatchAt(s, i)
    ELSE captures_from(s, i + 1)

captures(s) == captures_from(s, 1)

TBD == <<"T", "B", "D">>
Scheduled == <<"S", "c", "h", "e", "d", "u", "l", "e", "d">>
Midnight == <<"1", "2", ":", "0", "0", " ", "A", "M">>

DaysInMonth(y, m) ==
    IF m \in {4, 6, 9, 11} THEN 30
    ELSE IF m = 2
         THEN (IF (y % 4 = 0 /\ y % 100 # 0) \/ y % 400 = 0 THEN 29 ELSE 28)
         ELSE 31

\* NaiveDate::parse_from_str(_, "%Y-%m-%d") on a string whose fields read
\* <<year, month, day>>; the empty tuple stands for text that is no date.
parse_date(text) ==
    IF Len(text) = 3 /\ text[2] \in 1..12
       /\ text[3] \in 1..DaysInMonth(text[1], text[2])
    THEN Some(text) ELSE None

\* Ordering of NaiveDate.
DateLt(a, b) ==
    \/ a[1] < b[1]
    \/ a[1] = b[1] /\ a[2] < b[2]
    \/ a[1] = b[1] /\ a[2] = b[2] /\ a[3] < b[3]

\* started_today taking a game as started only after its start minute.
started_today_strictly_after(now_et, game_time) ==
    IF game_time = None \/ Unwrap(game_time) \in {TBD, Scheduled, Midnight}
    THEN FALSE
    ELSE LET caps == captures(Unwrap(game_time))
         IN  IF caps = None THEN FALSE
             ELSE LET c       == Unwrap(caps)
                      h       == parse_u32(c.hours)
                      minutes == parse_u32(c.minutes)
                      am_pm   == to_uppercase(c.am_pm)
                      hours   == IF am_pm = <<"P", "M">> /\ h # 12 THEN h + 12
                                 ELSE IF am_pm = <<"A", "M">> /\ h = 12 THEN 0
                                 ELSE h
                  IN  \/ now_et.hour > hours
                      \/ now_et.hour = hours /\ now_et.minute > minutes

\* The same-day branch of has_game_started.
started_today(now_et, game_time) ==
    IF game_time = None \/ Unwrap(game_time) \in {TBD, Scheduled, Midnight}
    THEN FALSE
    ELSE LET caps == captures(Unwrap(game_time))
         IN  IF caps = None THEN FALSE
             ELSE LET c       == Unwrap(caps)
                      h       == parse_u32(c.hours)
                      minutes == parse_u32(c.minutes)
                      am_pm   == to_uppercase(c.am_pm)
                      hours   == IF am_pm = <<"P", "M">> /\ h # 12 THEN h + 12
                                 ELSE IF am_pm = <<"A", "M">> /\ h = 12 THEN 0
                                 ELSE h
                  IN  \/ now_et.hour > hours
                      \/ now_et.hour = hours /\ now_et.minute >= minutes

\* has_game_started without the date comparison: the time alone decides.
has_game_started_time_only(date_text, game_time) ==
    started_today(with_timezone(utc_now, EtOffset), game_time)

\* has_game_started: reads the wall clock when called.
has_game_started(date_text, game_time) ==
    LET now_et == with_timezone(utc_now, EtOffset)
        parsed == parse_date(date_text)
    IN  IF parsed = None THEN FALSE
        ELSE IF DateLt(now_et.date, Unwrap(parsed)) THEN FALSE
        ELSE IF DateLt(Unwrap(parsed), now_et.date) THEN TRUE
        ELSE started_today(now_et, game_time)

------------------------------------------------------------------------------
(* Top-picks screener.                                                     *)

\* picks.truncate(20)
TopN == 20

\* ud_default_odds
DefaultUdOdds == -110

\* Tolerance of the line match and the smallest edge worth a pick.
LineTolerance == <<1, 100>>
MinEdgeTenthOfPoint == <<1, 1000>>
MinEdge == <<1, 200>>

\* SharpBookLine built from a row.
SharpBookLine(row) ==
    [sportsbook |-> row.sportsbook, line |-> row.book_line,
     over_odds |-> row.over_odds, under_odds |-> row.under_odds]

KeyOf(row) == <<row.player_name, row.stat_type>>

\* The filter with its test inverted: started games are the ones kept.
RECURSIVE KeepStarted(_, _)
KeepStarted(rows, answers) ==
    IF rows = <<>> THEN <<>>
    ELSE LET rest == KeepStarted(Tail(rows), Tail(answers))
         IN  IF Head(answers) THEN <<Head(rows)>> \o rest ELSE rest

\* The rows that pass the filter, in order: those has_game_started
\* answered false for.
RECURSIVE KeepNotStarted(_, _)
KeepNotStarted(rows, answers) ==
    IF rows = <<>> THEN <<>>
    ELSE LET rest == KeepNotStarted(Tail(rows), Tail(answers))
         IN  IF Head(answers) THEN rest ELSE <<Head(rows)>> \o rest

\* groups.entry(key).or_insert_with(..) and books.push(..) over the rows:
\* the groups in order of first appearance, each keeping the reference
\* fields of its first row and the book of every row.
RECURSIVE GroupRows(_, _)
GroupRows(rows, groups) ==
    IF rows = <<>> THEN groups
    ELSE LET row == Head(rows)
             at  == {i \in 1..Len(groups) :
                        <<groups[i].player_name, groups[i].stat_type>> = KeyOf(row)}
         IN  IF at = {}
             THEN GroupRows(Tail(rows),
                    Append(groups,
                      [player_name |-> row.player_name,
                       stat_type |-> row.stat_type,
                       ud_line |-> row.ud_line,
                       ud_odds |-> row.ud_odds,
                       home_team |-> row.home_team,
                       away_team |-> row.away_team,
                       game_date |-> row.game_date,
                       books |-> <<SharpBookLine(row)>>]))
             ELSE LET i == CHOOSE i \in at : TRUE
                  IN  GroupRows(Tail(rows),
                        [groups EXCEPT ![i].books = Append(@, SharpBookLine(row))])

NoBest == [best_edge |-> RZero, best_book |-> "", best_devigged |-> RZero]

\* ConsiderBook with a later book of equal absolute edge taking over.
ConsiderBookLastWins(best, book, ud_line, ud_prob) ==
    IF RLt(RAbs(RSub(book.line, ud_line)), LineTolerance)
    THEN LET sharp == devigged_over_prob(book.over_odds, book.under_odds)
         IN  IF sharp = None THEN best
             ELSE LET sharp_over == Unwrap(sharp)
                      edge == RSub(sharp_over, ud_prob)
                  IN  IF RGe(RAbs(edge), RAbs(best.best_edge))
                      THEN [best_edge |-> edge,
                            best_book |-> book.sportsbook,
                            best_devigged |->
                                IF RGt(edge, RZero) THEN sharp_over
                                ELSE RSub(ROne, sharp_over)]
                      ELSE best
    ELSE best

\* ConsiderBook storing the over probability whatever the direction.
ConsiderBookOverSide(best, book, ud_line, ud_prob) ==
    IF RLt(RAbs(RSub(book.line, ud_line)), LineTolerance)
    THEN LET sharp == devigged_over_prob(book.over_odds, book.under_odds)
         IN  IF sharp = None THEN best
             ELSE LET sharp_over == Unwrap(sharp)
                      edge == RSub(sharp_over, ud_prob)
                  IN  IF RGt(RAbs(edge), RAbs(best.best_edge))
                      THEN [best_edge |-> edge,
                            best_book |-> book.sportsbook,
                            best_devigged |-> sharp_over]
                      ELSE best
    ELSE best

\* One turn of the loop over a group's books.
ConsiderBook(best, book, ud_line, ud_prob) ==
    IF RLt(RAbs(RSub(book.line, ud_line)), LineTolerance)
    THEN LET sharp == devigged_over_prob(book.over_odds, book.under_odds)
         IN  IF sharp = None THEN best
             ELSE LET sharp_over == Unwrap(sharp)
                      edge == RSub(sharp_over, ud_prob)
                  IN  IF RGt(RAbs(edge), RAbs(best.best_edge))
                      THEN [best_edge |-> edge,
                            best_book |-> book.sportsbook,
                            best_devigged |->
                                IF RGt(edge, RZero) THEN sharp_over
                                ELSE RSub(ROne, sharp_over)]
                      ELSE best
    ELSE best

RECURSIVE BestOver(_, _, _, _)
BestOver(books, ud_line, ud_prob, best) ==
    IF books = <<>> THEN best
    ELSE BestOver(Tail(books), ud_line, ud_prob,
                  ConsiderBook(best, Head(books), ud_line, ud_prob))

\* PickOf showing the reference's over probability whatever the direction.
PickOfReferenceOverSide(group) ==
    LET ud_odds_val == IF group.ud_odds = None THEN DefaultUdOdds
                       ELSE Unwrap(group.ud_odds)
        ud_prob == implied_prob(ud_odds_val)
        best == BestOver(group.books, group.ud_line, ud_prob, NoBest)
    IN  IF best.best_book = "" \/ RLt(RAbs(best.best_edge), MinEdge)
        THEN None
        ELSE LET is_over == RGt(best.best_edge, RZero)
                 ud_dir_prob == ud_prob
             IN  Some([player_name |-> group.player_name,
                       stat_type |-> group.stat_type,
                       direction |-> IF is_over THEN "OVER" ELSE "UNDER",
                       ud_line |-> group.ud_line,
                       ud_odds |-> group.ud_odds,
                       ud_implied_prob |-> Tenths(ud_dir_prob),
                       edge_pct |-> Tenths(RAbs(best.best_edge)),
                       best_book |-> best.best_book,
                       best_book_devigged_prob |-> Tenths(best.best_devigged),
                       books |-> group.books,
                       home_team |-> group.home_team,
                       away_team |-> group.away_team,
                       game_date |-> group.game_date])

\* The closure of filter_map: the group's pick, or None.
PickOf(group) ==
    LET ud_odds_val == IF group.ud_odds = None THEN DefaultUdOdds
                       ELSE Unwrap(group.ud_odds)
        ud_prob == implied_prob(ud_odds_val)
        best == BestOver(group.books, group.ud_line, ud_prob, NoBest)
    IN  IF best.best_book = "" \/ RLt(RAbs(best.best_edge), MinEdge)
        THEN None
        ELSE LET is_over == RGt(best.best_edge, RZero)
                 ud_dir_prob == IF is_over THEN ud_prob ELSE RSub(ROne, ud_prob)
             IN  Some([player_name |-> group.player_name,
                       stat_type |-> group.stat_type,
                       direction |-> IF is_over THEN "OVER" ELSE "UNDER",
                       ud_line |-> group.ud_line,
                       ud_odds |-> group.ud_odds,
                       ud_implied_prob |-> Tenths(ud_dir_prob),
                       edge_pct |-> Tenths(RAbs(best.best_edge)),
                       best_book |-> best.best_book,
                       best_book_devigged_prob |-> Tenths(best.best_devigged),
                       books |-> group.books,
                       home_team |-> group.home_team,
                       away_team |-> group.away_team,
                       game_date |-> group.game_date])

\* filter_map(..).collect() over the groups in the order given.
RECURSIVE CollectPicks(_, _)
CollectPicks(groups, order) ==
    IF order = <<>> THEN <<>>
    ELSE LET p == PickOf(groups[Head(order)])
         IN  (IF p = None THEN <<>> ELSE <<Unwrap(p)>>)
             \o CollectPicks(groups, Tail(order))

\* Insertion of p into a list sorted by edge_pct, descending, after every
\* entry that does not order after it (the sort is stable).
RECURSIVE InsertByEdge(_, _)
InsertByEdge(sorted, p) ==
    IF sorted = <<>> THEN <<p>>
    ELSE IF Head(sorted).edge_pct >= p.edge_pct
         THEN <<Head(sorted)>> \o InsertByEdge(Tail(sorted), p)
         ELSE <<p>> \o sorted

\* The sort left out.
Unsorted(ps) == ps

\* picks.sort_by(|a, b| b.edge_pct.partial_cmp(&a.edge_pct)..)
RECURSIVE SortByEdgeDesc(_)
SortByEdgeDesc(ps) ==
    IF ps = <<>> THEN <<>>
    ELSE InsertByEdge(SortByEdgeDesc(SubSeq(ps, 1, Len(ps) - 1)), ps[Len(ps)])

\* Vec::truncate
Truncate(ps, n) == IF Len(ps) > n THEN SubSeq(ps, 1, n) ELSE ps

------------------------------------------------------------------------------
(* The top-picks request: GET /api/screener/top-picks.                     *)

\* Largest number of rows of an enumerated candidate table.
MaxRows == 2

\* Clock ticks that may pass while one request runs.
ClockWindow == 3

\* The long tables hold TopN + 1 .. TopN + BulkExtra groups.
BulkExtra == 1

\* Up to this many groups, every iteration order of the map is tried.
PermLimit == 3

T_730PM == <<"7", ":", "3", "0", " ", "P", "M">>

\* A TopPickRow.  Player names are numbered; every game is BOS at NYK.
Row(player, stat, ud_line, ud_odds, book, line, over, under, date, time) ==
    [player_name |-> player, stat_type |-> stat,
     ud_line |-> ud_line, ud_odds |-> ud_odds,
     sportsbook |-> book, book_line |-> line,
     over_odds |-> over, under_odds |-> under,
     home_team |-> "NYK", away_team |-> "BOS",
     game_date |-> date, game_time |-> time]

\* The rows the enumerated tables are made of.  Player 1 points: reference
\* line 24.5 without odds; player 2 points: reference line 10.5 at +100;
\* player 2 assists: reference line 5.5 at -120, one book
\* quoting both sides so long that no fair probability is defined.
RowPool ==
    { Row(1, "points", <<49, 2>>, None, "draftkings", <<49, 2>>,
          Some(-110), Some(-110), Days[2], Some(T_730PM)),
      Row(1, "points", <<49, 2>>, None, "fanduel", <<4901, 200>>,
          Some(150), Some(-200), Days[2], Some(T_730PM)),
      Row(1, "points", <<47, 2>>, Some(-120), "caesars", <<47, 2>>,
          Some(-300), Some(200), Days[1], Some(T_730PM)),
      Row(2, "points", <<21, 2>>, Some(100), "draftkings", <<21, 2>>,
          Some(197), Some(203), Days[2], Some(T_730PM)),
      Row(2, "points", <<21, 2>>, Some(100), "fanduel", <<21, 2>>,
          Some(203), Some(197), Days[2], Some(TBD)),
      Row(2, "points", <<21, 2>>, Some(100), "pinnacle", <<21, 2>>,
          None, Some(-110), Days[3], None),
      Row(2, "points", <<21, 2>>, Some(100), "betmgm", <<21, 2>>,
          Some(-110), Some(-112), Days[3], None),
      Row(2, "points", <<21, 2>>, Some(100), "caesars", <<1051, 100>>,
          Some(-300), Some(200), Days[2], Some(T_730PM)),
      Row(2, "points", <<21, 2>>, Some(100), "bet365", <<21, 2>>,
          Some(-110), Some(-110), Days[2], Some(T_730PM)),
      Row(2, "assists", <<11, 2>>, Some(-120), "draftkings", <<11, 2>>,
          Some(-150), Some(120), Days[2], Some(T_730PM)),
      Row(2, "assists", <<11, 2>>, Some(-120), "pinnacle", <<11, 2>>,
          Some(200000), Some(200000), Days[3], None) }

RECURSIVE SeqsUpTo(_, _)
SeqsUpTo(S, n) ==
    IF n = 0 THEN {<<>>}
    ELSE LET shorter == SeqsUpTo(S, n - 1)
         IN  shorter \cup {Append(t, x) : t \in shorter, x \in S}

\* Book quotes of the long tables, against a reference line at +100: edges
\* of 12.5, 2.4, 0.5 (over), 0.5 (under) and 2.4 points.
BulkQuotes ==
    << <<Some(150), Some(-200)>>, <<Some(-150), Some(-120)>>,
       <<Some(197), Some(203)>>, <<Some(203), Some(197)>>,
       <<Some(-120), Some(-150)>> >>

\* A long table: n groups of one row each, the quotes taken in rotation
\* from the given shift; games are a day ahead with no time set.
BulkTable(n, shift) ==
    [i \in 1..n |->
        LET q == BulkQuotes[((i + shift) % Len(BulkQuotes)) + 1]
        IN  Row(100 + i, "points", <<21, 2>>, Some(100), "pinnacle",
                <<21, 2>>, q[1], q[2], Days[3], Some(TBD))]

\* What db::get_top_pick_candidates may return.
Tables ==
    SeqsUpTo(RowPool, MaxRows)
    \cup {BulkTable(n, shift) : n \in (TopN + 1)..(TopN + BulkExtra),
                                shift \in 0..(Len(BulkQuotes) - 1)}

\* Orders in which HashMap::into_values may hand out n groups (numbered by
\* first appearance): every order up to PermLimit groups; beyond, the
\* order of appearance, its reverse and their rotations by one.
HashOrders(n) ==
    IF n <= PermLimit
    THEN {p \in [1..n -> 1..n] : \A i, j \in 1..n : p[i] = p[j] => i = j}
    ELSE { [i \in 1..n |-> i], [i \in 1..n |-> n + 1 - i],
           [i \in 1..n |-> (i % n) + 1], [i \in 1..n |-> n - (i % n)] }

\* Eastern wall times at which a request may arrive.
StartWalls == {<<2, 19, 29>>, <<2, 23, 58>>}

\* Time zones the server may run in: UTC or Eastern.
ServerZones == {0, EtOffset}

Init ==
    /\ fn = "get_top_picks"
    /\ args = <<>>
    /\ ret = NoRet
    /\ clock \in {i \in 1..Len(EtWall) : EtWall[i] \in StartWalls}
    /\ elapsed = 0
    /\ server_tz \in ServerZones
    /\ pc = "start"
    /\ query \in {None, Some(Days[2])}
    /\ query # None => server_tz = EtOffset
    /\ game_date = None
    /\ all_rows = <<>>
    /\ started = <<>>
    /\ hash_order = <<>>
    /\ collected = <<>>
    /\ picks = <<>>
    /\ db = <<>>
    /\ fetched = <<>>

harness_vars == <<fn, args, ret, db, fetched>>

\* Time passes.
Tick ==
    /\ pc \in {"start", "filter"}
    /\ clock < Len(Instants)
    /\ elapsed < ClockWindow
    /\ clock' = clock + 1
    /\ elapsed' = elapsed + 1
    /\ UNCHANGED <<harness_vars, server_tz, pc, query, game_date, all_rows,
                   started, hash_order, collected, picks>>

\* chrono::Local::now().format("%Y-%m-%d")
local_today == with_timezone(utc_now, server_tz).date

\* The game date is resolved and the candidate rows are fetched.
Begin ==
    /\ pc = "start"
    /\ game_date' = IF query = None THEN Some(local_today) ELSE query
    /\ all_rows' \in Tables
    /\ pc' = "filter"
    /\ UNCHANGED <<harness_vars, clock, elapsed, server_tz, query, started,
                   hash_order, collected, picks>>

\* The filter closure runs on the next row.
FilterRow ==
    /\ pc = "filter"
    /\ Len(started) < Len(all_rows)
    /\ LET row == all_rows[Len(started) + 1]
       IN  started' = Append(started,
                             has_game_started(row.game_date, row.game_time))
    /\ UNCHANGED <<harness_vars, clock, elapsed, server_tz, pc, query,
                   game_date, all_rows, hash_order, collected, picks>>

\* Grouping, rating, sort and cut; the response is returned.
Respond ==
    /\ pc = "filter"
    /\ Len(started) = Len(all_rows)
    /\ LET groups == GroupRows(KeepNotStarted(all_rows, started), <<>>)
       IN  \E order \in HashOrders(Len(groups)) :
              /\ hash_order' = order
              /\ collected' = CollectPicks(groups, order)
              /\ picks' = Truncate(SortByEdgeDesc(collected'), TopN)
    /\ pc' = "done"
    /\ UNCHANGED <<harness_vars, clock, elapsed, server_tz, query, game_date,
                   all_rows, started>>

Next == Tick \/ Begin \/ FilterRow \/ Respond

Spec == Init /\ [][Next]_vars

------------------------------------------------------------------------------
(* Function harness: one call of a pure function on drawn arguments.       *)

\* i32 values handed to implied_prob: both ends of the type that the
\* checker's integers can carry through o + 100, and ordinary prices.
ImpliedOdds ==
    {I32Min, -2147483547, -200000, -300, -110, -100, -1, 0,
     1, 100, 150, 203, 200000, 2147483547}

\* Option<i32> values handed to devigged_over_prob.
DevigOdds ==
    {None} \cup
    {Some(o) : o \in {-200000, -300, -120, -110, -100, -1, 0, 1, 100, 150,
                      197, 203, 199900, 199901, 200000, 1000000}}

NoRequestButClock ==
    /\ elapsed = 0
    /\ server_tz = 0
    /\ pc = "idle"
    /\ query = None
    /\ game_date = None
    /\ all_rows = <<>>
    /\ started = <<>>
    /\ hash_order = <<>>
    /\ collected = <<>>
    /\ picks = <<>>

NoRequest == clock = 1 /\ NoRequestButClock

request_vars ==
    <<clock, elapsed, server_tz, pc, query, game_date, all_rows, started,
      hash_order, collected, picks>>

InitOdds ==
    /\ NoRequest
    /\ db = <<>>
    /\ fetched = <<>>
    /\ ret = NoRet
    /\ \/ fn = "implied_prob" /\ args \in {<<o>> : o \in ImpliedOdds}
       \/ fn = "devigged_over_prob" /\ args \in DevigOdds \X DevigOdds

CallImpliedProb ==
    /\ fn = "implied_prob"
    /\ ret = NoRet
    /\ ret' = <<implied_prob(args[1])>>
    /\ UNCHANGED <<fn, args, db, fetched, request_vars>>

CallDevig ==
    /\ fn = "devigged_over_prob"
    /\ ret = NoRet
    /\ ret' = <<devigged_over_prob(args[1], args[2])>>
    /\ UNCHANGED <<fn, args, db, fetched, request_vars>>

NextOdds == CallImpliedProb \/ CallDevig

SpecOdds == InitOdds /\ [][NextOdds]_vars


\* Date strings handed to has_game_started: the four dates of Days, a
\* well-formed string that names no date (February 30) and text that is no
\* date at all.
DateTexts ==
    {Days[i] : i \in 1..Len(Days)} \cup {<<2025, 2, 30>>, <<>>}

\* Time strings handed to has_game_started, each with the H:MM AM|PM
\* reading a person takes from it: <<H, MM, meridiem>>, None where the text
\* holds no H:MM followed by AM, PM, am or pm.
TimeTexts ==
    << [text |-> None, reads |-> None],
       [text |-> Some(<<"T", "B", "D">>),
        reads |-> None],
       [text |-> Some(<<"S", "c", "h", "e", "d", "u", "l", "e", "d">>),
        reads |-> None],
       [text |-> Some(<<"1", "2", ":", "0", "0", " ", "A", "M">>),
        reads |-> Some(<<12, 0, "AM">>)],
       [text |-> Some(<<"7", ":", "3", "0", " ", "P", "M">>),
        reads |-> Some(<<7, 30, "PM">>)],
       [text |-> Some(<<"7", ":", "3", "0", " ", "p", "m", " ", "E", "T">>),
        reads |-> Some(<<7, 30, "PM">>)],
       [text |-> Some(<<"7", ":", "3", "0", "P", "M">>),
        reads |-> Some(<<7, 30, "PM">>)],
       [text |-> Some(<<"1", "2", ":", "1", "5", " ", "P", "M">>),
        reads |-> Some(<<12, 15, "PM">>)],
       [text |-> Some(<<"1", "2", ":", "3", "0", " ", "A", "M">>),
        reads |-> Some(<<12, 30, "AM">>)],
       [text |-> Some(<<"1", "1", ":", "5", "9", " ", "P", "M">>),
        reads |-> Some(<<11, 59, "PM">>)],
       [text |-> Some(<<"1", "0", ":", "0", "5", " ", "a", "m">>),
        reads |-> Some(<<10, 5, "AM">>)],
       [text |-> Some(<<"T", "i", "p", "o", "f", "f", " ", "1", "0", ":", "0", "5", " ", "A", "M">>),
        reads |-> Some(<<10, 5, "AM">>)],
       [text |-> Some(<<"1", "2", ":", "0", "0", " ", "A", "M", " ", "E", "T">>),
        reads |-> Some(<<12, 0, "AM">>)],
       [text |-> Some(<<"1", "3", ":", "0", "0", " ", "P", "M">>),
        reads |-> Some(<<13, 0, "PM">>)],
       [text |-> Some(<<"1", "9", ":", "3", "0">>),
        reads |-> None],
       [text |-> Some(<<"7", ":", "3", "0", " ", "P", "m">>),
        reads |-> None],
       [text |-> Some(<<"T", "B", "D", " ">>),
        reads |-> None],
       [text |-> Some(<<>>),
        reads |-> None] >>

TimeOpts == {TimeTexts[k].text : k \in 1..Len(TimeTexts)}

InitClock ==
    /\ NoRequestButClock
    /\ db = <<>>
    /\ fetched = <<>>
    /\ clock \in 1..Len(Instants)
    /\ fn = "has_game_started"
    /\ args \in DateTexts \X TimeOpts
    /\ ret = NoRet

CallHasGameStarted ==
    /\ fn = "has_game_started"
    /\ ret = NoRet
    /\ ret' = <<has_game_started(args[1], args[2])>>
    /\ UNCHANGED <<fn, args, db, fetched, request_vars>>

NextClock == CallHasGameStarted

SpecClock == InitClock /\ [][NextClock]_vars

------------------------------------------------------------------------------
(* Properties of the odds math, checked under SpecOdds.                    *)

\* The closed form of the specification: |O| / (|O| + 100) for O < 0, else
\* 100 / (O + 100).  For O < 0 it is written O / (O - 100), over a quarter
\* of O where 4 divides O, so that it is defined down to I32Min.
ClaimedImplied(O) ==
    IF O < 0
    THEN IF O % 4 = 0 THEN Rat(O \div 4, (O \div 4) - 25) ELSE Rat(O, O - 100)
    ELSE Rat(100, O + 100)

InOpenUnit(p) == RGt(p, RZero) /\ RLt(p, ROne)

ImpliedReturned == fn = "implied_prob" /\ ret # NoRet
DevigReturned == fn = "devigged_over_prob" /\ ret # NoRet

\* C8: for every nonzero integer odds O, implied_prob(O) equals
\* |O| / (|O| + 100) when O < 0 and 100 / (O + 100) when O > 0, and lies
\* strictly between 0 and 1.
C8_ImpliedProbClosedFormInUnit ==
    (ImpliedReturned /\ args[1] # 0) =>
        /\ ret[1] = ClaimedImplied(args[1])
        /\ InOpenUnit(ret[1])

\* C8, where it fails: implied_prob has returned for O = i32::MIN.
C8_ReturnedAtI32Min == ImpliedReturned /\ args[1] = I32Min

\* C8 holds of every nonzero i32 other than i32::MIN.
C8_HoldsAboveI32Min ==
    (ImpliedReturned /\ args[1] # 0 /\ args[1] # I32Min) =>
        /\ ret[1] = ClaimedImplied(args[1])
        /\ InOpenUnit(ret[1])

\* C9: devigged_over_prob returns no value exactly when the over odds are
\* absent, the under odds are absent, or the two implied probabilities sum
\* to less than 0.001; otherwise it returns
\* implied(over) / (implied(over) + implied(under)), strictly inside (0, 1).
C9_DevigNoneExactlyWhen ==
    DevigReturned =>
        LET over  == args[1]
            under == args[2]
            absent == over = None \/ under = None
            io == ClaimedImplied(Unwrap(over))
            iu == ClaimedImplied(Unwrap(under))
            negligible == ~absent /\ RLt(RAdd(io, iu), <<1, 1000>>)
        IN  /\ (ret[1] = None) <=> (absent \/ negligible)
            /\ ret[1] # None =>
                  /\ Unwrap(ret[1]) = RDiv(io, RAdd(io, iu))
                  /\ InOpenUnit(Unwrap(ret[1]))

\* C9's cases: no value for a negligible total of two present odds, and a
\* value for a total of exactly 0.001.
C9_NegligibleTotalReturned ==
    /\ DevigReturned
    /\ args = <<Some(200000), Some(200000)>>
    /\ ret[1] = None

\* C10 as stated: equal implied probabilities give exactly one half, and
\* devigged_over_prob(a, b) + devigged_over_prob(b, a) = 1 whenever the
\* result is defined.
C10_SymmetricIsHalf_Original ==
    (DevigReturned /\ args[1] # None /\ args[2] # None) =>
        LET a == Unwrap(args[1])
            b == Unwrap(args[2])
        IN  /\ ClaimedImplied(a) = ClaimedImplied(b) => ret[1] = Some(<<1, 2>>)
            /\ ret[1] # None =>
                  RAdd(Unwrap(ret[1]),
                       Unwrap(devigged_over_prob(args[2], args[1]))) = ROne

\* C10, amended: whenever the result is defined, equal implied
\* probabilities give exactly one half, and
\* devigged_over_prob(a, b) + devigged_over_prob(b, a) = 1.
C10_SymmetricIsHalfWhenDefined ==
    (DevigReturned /\ ret[1] # None) =>
        LET a == Unwrap(args[1])
            b == Unwrap(args[2])
            swapped == devigged_over_prob(args[2], args[1])
        IN  /\ ClaimedImplied(a) = ClaimedImplied(b) => ret[1] = Some(<<1, 2>>)
            /\ swapped # None
            /\ RAdd(Unwrap(ret[1]), Unwrap(swapped)) = ROne

\* C10's case: a symmetric market quoted with different odds on each side.
C10_EvenMoneyReturned ==
    /\ DevigReturned
    /\ args = <<Some(100), Some(-100)>>
    /\ ret[1] = Some(<<1, 2>>)


------------------------------------------------------------------------------
(* Properties of the game-state filter, checked under SpecClock.           *)

ClockReturned == fn = "has_game_started" /\ ret # NoRet

\* The current Eastern date and wall time, from the table of wall times.
TodayEt == Days[EtWall[clock][1]]
HourEt == EtWall[clock][2]
MinuteEt == EtWall[clock][3]

IsDate(text) == \E i \in 1..Len(Days) : text = Days[i]

\* C5: whatever the time string (missing, sentinel, unparseable or valid),
\* has_game_started returns false for a game dated after the current
\* Eastern date and true for a game dated before it.
C5_DateDecidesFirst ==
    (ClockReturned /\ IsDate(args[1])) =>
        /\ DateLt(TodayEt, args[1]) => ret[1] = FALSE
        /\ DateLt(args[1], TodayEt) => ret[1] = TRUE

\* C5's case: a past-dated game with a time string that cannot be parsed
\* is reported started, late in the Eastern evening of the day after.
C5_PastDateUnparseableTime ==
    /\ ClockReturned
    /\ args[1] = Days[1]
    /\ args[2] = Some(<<"1", "9", ":", "3", "0">>)
    /\ EtWall[clock] = <<2, 23, 59>>
    /\ ret[1] = TRUE

\* The reading of a time string of TimeTexts.
Reads(game_time) ==
    LET k == CHOOSE k \in 1..Len(TimeTexts) : TimeTexts[k].text = game_time
    IN  TimeTexts[k].reads

\* 12 AM becomes 0, 12 PM stays 12, any other PM hour adds 12.
Claimed24(h, meridiem) ==
    IF meridiem = "AM" THEN (IF h = 12 THEN 0 ELSE h)
    ELSE (IF h = 12 THEN 12 ELSE h + 12)

------------------------------------------------------------------------------
(* Properties of the top-picks request, checked under Spec.                *)

Done == pc = "done"

\* The section 4.2 predicate at the instant of clock index c, from the table
\* of wall times and the readings of the time strings.
StartedByClaim(c, date, time) ==
    LET today == Days[EtWall[c][1]]
        r     == Reads(time)
        h     == Claimed24(Unwrap(r)[1], Unwrap(r)[3])
    IN  \/ DateLt(date, today)
        \/ /\ date = today
           /\ time # None
           /\ Unwrap(time) \notin {TBD, Scheduled, Midnight}
           /\ r # None
           /\ \/ EtWall[c][2] > h
              \/ EtWall[c][2] = h /\ EtWall[c][3] >= Unwrap(r)[2]

\* Rows the filter let through, by index, and the keys they carry.
KeptIdx == {i \in 1..Len(started) : ~started[i]}
RowKey(i) == <<all_rows[i].player_name, all_rows[i].stat_type>>
KeptKeys == {RowKey(i) : i \in KeptIdx}
KeptOf(k) == {i \in KeptIdx : RowKey(i) = k}
Least(S) == CHOOSE i \in S : \A j \in S : i <= j

\* A group's reference row, and the reference book's implied probability
\* of the over (from -110 when the reference odds are missing).
RefRow(k) == all_rows[Least(KeptOf(k))]
RefProb(k) ==
    ClaimedImplied(IF RefRow(k).ud_odds = None THEN -110
                   ELSE Unwrap(RefRow(k).ud_odds))

\* Books of the group at the reference line with both odds present and a
\* fair probability defined (implied probabilities summing to 0.001 or
\* more), and the fair over probability and the edge of such a book.
AtLine(k) ==
    {i \in KeptOf(k) :
        /\ RLt(RAbs(RSub(all_rows[i].book_line, RefRow(k).ud_line)), <<1, 100>>)
        /\ all_rows[i].over_odds # None
        /\ all_rows[i].under_odds # None}
Matching(k) ==
    {i \in AtLine(k) :
        RGe(RAdd(ClaimedImplied(Unwrap(all_rows[i].over_odds)),
                 ClaimedImplied(Unwrap(all_rows[i].under_odds))),
            <<1, 1000>>)}
FairOver(i) ==
    LET io == ClaimedImplied(Unwrap(all_rows[i].over_odds))
        iu == ClaimedImplied(Unwrap(all_rows[i].under_odds))
    IN  RDiv(io, RAdd(io, iu))
Edge(k, i) == RSub(FairOver(i), RefProb(k))
Qualifies(k) == \E i \in Matching(k) : RGe(RAbs(Edge(k, i)), <<1, 200>>)

PickKey(p) == <<p.player_name, p.stat_type>>
PicksOf(k, ps) == {j \in 1..Len(ps) : PickKey(ps[j]) = k}

\* C1: a group yields a pick if and only if one of its books is at the
\* reference line (within 0.01) with both odds present and the largest
\* absolute edge among those books is at least 0.005; no group yields
\* more than one pick.
C1_PickIffMatchedEdgeAtLeastHalfPoint ==
    Done =>
        /\ \A k \in KeptKeys :
              Cardinality(PicksOf(k, collected)) = IF Qualifies(k) THEN 1 ELSE 0
        /\ \A j \in 1..Len(collected) : PickKey(collected[j]) \in KeptKeys

\* C1's case: one group is dropped although a book matched its line (the
\* edge is under 0.005) while another group yields its pick.
C1_NegligibleDroppedOtherKept ==
    /\ Done
    /\ \E k \in KeptKeys : Matching(k) # {} /\ ~Qualifies(k)
                           /\ PicksOf(k, collected) = {}
    /\ \E k \in KeptKeys : PicksOf(k, picks) # {}

\* The books of the kept rows of a group, in row order.
RECURSIVE BooksOfKept(_, _)
BooksOfKept(k, i) ==
    IF i > Len(all_rows) THEN <<>>
    ELSE (IF i \in KeptOf(k)
          THEN <<[sportsbook |-> all_rows[i].sportsbook,
                  line |-> all_rows[i].book_line,
                  over_odds |-> all_rows[i].over_odds,
                  under_odds |-> all_rows[i].under_odds]>>
          ELSE <<>>) \o BooksOfKept(k, i + 1)

\* C2: every row is tested with has_game_started on its own date and time
\* (at an instant of the request), rows that test true are discarded
\* before grouping, and a pick's reference line and books come from rows
\* that were kept only.
C2_NoPickFromStartedRow ==
    /\ \A i \in 1..Len(started) :
          \E c \in (clock - elapsed)..clock :
              started[i] = StartedByClaim(c, all_rows[i].game_date,
                                          all_rows[i].game_time)
    /\ Done =>
          \A j \in 1..Len(picks) :
              LET p == picks[j]
                  k == PickKey(p)
              IN  /\ k \in KeptKeys
                  /\ p.books = BooksOfKept(k, 1)
                  /\ p.ud_line = RefRow(k).ud_line
                  /\ p.ud_odds = RefRow(k).ud_odds
                  /\ p.game_date = RefRow(k).game_date

\* C2's case: the first row of a group was discarded as started and the
\* group's pick is built from the rows after it.
C2_PickAfterDiscardedFirstRow ==
    /\ Done
    /\ Len(all_rows) = 2
    /\ started = <<TRUE, FALSE>>
    /\ RowKey(1) = RowKey(2)
    /\ all_rows[1].ud_line # all_rows[2].ud_line
    /\ Len(picks) = 1

C4_DirectionAndProbabilities ==
    Done =>
        \A j \in 1..Len(collected) :
            LET p == collected[j]
                k == PickKey(p)
            IN  \E i \in Matching(k) :
                  LET fair == FairOver(i)
                      ref  == RefProb(k)
                      over == RGt(fair, ref)
                  IN  /\ all_rows[i].sportsbook = p.best_book
                      /\ p.direction = IF over THEN "OVER" ELSE "UNDER"
                      /\ p.ud_implied_prob =
                            Tenths(IF over THEN ref ELSE RSub(ROne, ref))
                      /\ p.best_book_devigged_prob =
                            Tenths(IF over THEN fair ELSE RSub(ROne, fair))
                      /\ p.edge_pct = Tenths(RAbs(RSub(fair, ref)))

\* C4's case: an UNDER pick rated against the default -110 beside an OVER
\* pick rated against the reference's own odds.
C4_UnderAtDefaultBesideOver ==
    /\ Done
    /\ \E j \in 1..Len(picks) :
          picks[j].direction = "UNDER" /\ picks[j].ud_odds = None
    /\ \E j \in 1..Len(picks) :
          picks[j].direction = "OVER" /\ picks[j].ud_odds # None

\* C7: within one request, two rows with the same game_date and game_time
\* receive the same started / not-started decision.
C7_SameGameSameDecision ==
    \A i, j \in 1..Len(started) :
        (/\ all_rows[i].game_date = all_rows[j].game_date
         /\ all_rows[i].game_time = all_rows[j].game_time)
        => started[i] = started[j]

\* C7, where it fails: two rows of the same game, the first kept and the
\* second discarded.
C7_SameGameSplit ==
    /\ Done
    /\ Len(all_rows) = 2
    /\ all_rows[1] = all_rows[2]
    /\ started = <<FALSE, TRUE>>

------------------------------------------------------------------------------
(* Matchup engine (src/backend/src/db/mod.rs): the tables and the queries.  *)
(* Percentages and fractions are f32 in the code and exact rationals here.  *)

\* f32 product.
RMul(a, b) == Rat(a[1] * b[1], a[2] * b[2])
Hundred == <<100, 1>>

\* The text values of the tables, in the byte order SQLite's ORDER BY
\* compares them by.
TextOrder ==
    <<"Above the Break 3", "Backcourt", "Cut", "In The Paint (Non-RA)",
      "Isolation", "Left Corner 3", "Mid-Range", "Restricted Area",
      "Right Corner 3", "Spotup", "assists", "over", "points", "under">>
TextIndex(t) == CHOOSE i \in 1..Len(TextOrder) : TextOrder[i] = t
TextLe(a, b) == TextIndex(a) <= TextIndex(b)

\* fetch_all of a SELECT ... ORDER BY: every sequence that lists the rows
\* S once each in an order the sort key allows (le[<<x, y>>]: x may come
\* before y); rows equal on the key come in any order.
RECURSIVE Sorted(_, _)
Sorted(S, le) ==
    IF S = {} THEN {<<>>}
    ELSE UNION {{<<x>> \o t : t \in Sorted(S \ {x}, le)} :
                   x \in {m \in S : \A y \in S : le[<<m, y>>]}}

\* SELECT * FROM player_shooting_zones WHERE player_id = ? ORDER BY zone_name
get_shooting_zones(player_id) ==
    LET S == {r \in db.player_shooting_zones : r.player_id = player_id}
    IN  Sorted(S, [p \in S \X S |-> TextLe(p[1].zone_name, p[2].zone_name)])

\* SELECT * FROM team_defensive_zones WHERE team_id = ? ORDER BY zone_name
get_defensive_zones(team_id) ==
    LET S == {r \in db.team_defensive_zones : r.team_id = team_id}
    IN  Sorted(S, [p \in S \X S |-> TextLe(p[1].zone_name, p[2].zone_name)])

\* A row of the league-wide query: struct ZoneDefense.
ZoneDefense(r) ==
    [team_id |-> r.team_id, zone_name |-> r.zone_name,
     opp_fg_pct |-> r.opp_fg_pct]

\* SELECT team_id, zone_name, opp_fg_pct FROM team_defensive_zones
\* ORDER BY zone_name, opp_fg_pct
all_def_zones_query ==
    LET S  == db.team_defensive_zones
        le == [p \in S \X S |->
                  \/ TextIndex(p[1].zone_name) < TextIndex(p[2].zone_name)
                  \/ /\ p[1].zone_name = p[2].zone_name
                     /\ RLe(p[1].opp_fg_pct, p[2].opp_fg_pct)]
    IN  {[i \in 1..Len(t) |-> ZoneDefense(t[i])] : t \in Sorted(S, le)}

\* SELECT player_name FROM player_stats WHERE player_id = ? LIMIT 1, and
\* SELECT full_name FROM teams WHERE team_id = ? LIMIT 1: fetch_optional.
player_name_query(player_id) ==
    IF \E r \in db.player_stats : r.player_id = player_id
    THEN {Some(r.player_name) : r \in {x \in db.player_stats : x.player_id = player_id}}
    ELSE {None}
team_name_query(team_id) ==
    IF \E r \in db.teams : r.team_id = team_id
    THEN {Some(r.full_name) : r \in {x \in db.teams : x.team_id = team_id}}
    ELSE {None}

\* Option::unwrap_or
unwrap_or(o, d) == IF o = None THEN d ELSE Unwrap(o)

\* iter().find(|z| z.zone_name == zone_name)
RECURSIVE find_zone(_, _)
find_zone(rows, zone_name) ==
    IF rows = <<>> THEN None
    ELSE IF Head(rows).zone_name = zone_name THEN Some(Head(rows))
    ELSE find_zone(Tail(rows), zone_name)

\* iter().filter(|z| z.zone_name == zone_name).collect()
RECURSIVE filter_zone(_, _)
filter_zone(rows, zone_name) ==
    IF rows = <<>> THEN <<>>
    ELSE (IF Head(rows).zone_name = zone_name THEN <<Head(rows)>> ELSE <<>>)
         \o filter_zone(Tail(rows), zone_name)

\* iter().position(|z| z.team_id == team_id), counted from 0.
RECURSIVE position_team(_, _)
position_team(rows, team_id) ==
    IF rows = <<>> THEN None
    ELSE IF Head(rows).team_id = team_id THEN Some(0)
    ELSE LET rest == position_team(Tail(rows), team_id)
         IN  IF rest = None THEN None ELSE Some(Unwrap(rest) + 1)

\* iter().map(|z| z.fga).sum() and iter().map(|z| z.opp_fg_pct).sum()
RECURSIVE sum_fga(_)
sum_fga(rows) ==
    IF rows = <<>> THEN RZero ELSE RAdd(Head(rows).fga, sum_fga(Tail(rows)))
RECURSIVE sum_opp_fg_pct(_)
sum_opp_fg_pct(rows) ==
    IF rows = <<>> THEN RZero
    ELSE RAdd(Head(rows).opp_fg_pct, sum_opp_fg_pct(Tail(rows)))

------------------------------------------------------------------------------
(* Shooting-zone matchup: get_shooting_zone_matchup.                        *)

\* zone_names with the right corner left untagged.
zone_names_corner_untagged ==
    << <<"Above the Break 3", TRUE>>, <<"In The Paint (Non-RA)", FALSE>>,
       <<"Left Corner 3", TRUE>>, <<"Mid-Range", FALSE>>,
       <<"Restricted Area", FALSE>>, <<"Right Corner 3", FALSE>> >>

\* Zone names and whether they are 3-point zones.
zone_names ==
    << <<"Above the Break 3", TRUE>>, <<"In The Paint (Non-RA)", FALSE>>,
       <<"Left Corner 3", TRUE>>, <<"Mid-Range", FALSE>>,
       <<"Restricted Area", FALSE>>, <<"Right Corner 3", TRUE>> >>

\* The mean of the zone's allowed fractions, 0.0 without rows.
league_avg(zone_defenses) ==
    IF zone_defenses # <<>>
    THEN RDiv(sum_opp_fg_pct(zone_defenses), <<Len(zone_defenses), 1>>)
    ELSE RZero

\* The rank given without data.
DefaultRank == 15

\* opp_rank with the position left 0-based.
opp_rank_zero_based(opp_zone, zone_defenses, opponent_team_id) ==
    IF opp_zone # None
    THEN unwrap_or(position_team(zone_defenses, opponent_team_id), DefaultRank)
    ELSE DefaultRank

\* Opponent rank (1 = best defense = lowest opp_fg_pct).
opp_rank(opp_zone, zone_defenses, opponent_team_id) ==
    IF opp_zone # None
    THEN LET pos == position_team(zone_defenses, opponent_team_id)
         IN  IF pos = None THEN DefaultRank ELSE Unwrap(pos) + 1
    ELSE DefaultRank

\* has_data with either row sufficing.
has_data_either(player_zone, opp_zone) == player_zone # None \/ opp_zone # None

has_data(player_zone, opp_zone) == player_zone # None /\ opp_zone # None

\* The opponent's fraction passed on unscaled.
opp_fg_pct_unscaled(opp_zone) ==
    IF opp_zone = None THEN RZero ELSE Unwrap(opp_zone).opp_fg_pct

\* opp_zone.map(|z| z.opp_fg_pct * 100.0).unwrap_or(0.0)
opp_fg_pct_scaled(opp_zone) ==
    IF opp_zone = None THEN RZero
    ELSE RMul(Unwrap(opp_zone).opp_fg_pct, Hundred)

\* The player's share of attempts, 0.0 when there are none.
player_volume_pct(player_fga, total_fga) ==
    IF RGt(total_fga, RZero)
    THEN RMul(RDiv(player_fga, total_fga), Hundred)
    ELSE RZero

\* The advantage read off the opponent's side only.
advantage_opp_only(player_fg_pct, opp_fg_pct, league_avg_pct) ==
    RSub(opp_fg_pct, league_avg_pct)

\* player_vs_league + opp_vs_league
advantage(player_fg_pct, opp_fg_pct, league_avg_pct) ==
    LET player_vs_league == RSub(player_fg_pct, league_avg_pct)
        opp_vs_league    == RSub(opp_fg_pct, league_avg_pct)
    IN  RAdd(player_vs_league, opp_vs_league)

\* One turn of the loop over zone_names.
ShootingZoneMatchup(zone, player_zones, opponent_def_zones, all_def_zones, opponent_team_id, total_fga) ==
    LET zone_name      == zone[1]
        player_zone    == find_zone(player_zones, zone_name)
        opp_zone       == find_zone(opponent_def_zones, zone_name)
        zone_defenses  == filter_zone(all_def_zones, zone_name)
        player_fg_pct  == IF player_zone = None THEN RZero
                          ELSE Unwrap(player_zone).fg_pct
        player_fga     == IF player_zone = None THEN RZero
                          ELSE Unwrap(player_zone).fga
        player_fgm     == IF player_zone = None THEN RZero
                          ELSE Unwrap(player_zone).fgm
        opp_fg_pct     == opp_fg_pct_scaled(opp_zone)
        league_avg_pct == RMul(league_avg(zone_defenses), Hundred)
    IN  [zone_name |-> zone_name,
         player_fgm |-> player_fgm,
         player_fga |-> player_fga,
         player_fg_pct |-> player_fg_pct,
         player_volume_pct |-> player_volume_pct(player_fga, total_fga),
         opp_fg_pct |-> opp_fg_pct,
         opp_rank |-> opp_rank(opp_zone, zone_defenses, opponent_team_id),
         league_avg_pct |-> league_avg_pct,
         advantage |-> advantage(player_fg_pct, opp_fg_pct, league_avg_pct),
         is_three |-> zone[2],
         has_data |-> has_data(player_zone, opp_zone)]

get_shooting_zone_matchup(player_id, opponent_team_id, player_name, opponent_name, player_zones, opponent_def_zones, all_def_zones) ==
    LET total_fga == sum_fga(player_zones)
    IN  [player_name |-> unwrap_or(player_name, "Unknown"),
         player_id |-> player_id,
         opponent_name |-> unwrap_or(opponent_name, "Unknown"),
         opponent_id |-> opponent_team_id,
         total_fga |-> total_fga,
         zones |-> [i \in 1..Len(zone_names) |->
                       ShootingZoneMatchup(zone_names[i], player_zones,
                                           opponent_def_zones, all_def_zones,
                                           opponent_team_id, total_fga)]]

\* Bounds of the tables.
MaxShootingRows == 3
MaxDefenseRows == 3

SubsetsUpTo(S, n) == {T \in SUBSET S : Cardinality(T) <= n}

ShootingRow(player, season, zone, fgm, fga, fg_pct) ==
    [player_id |-> player, season |-> season, zone_name |-> zone,
     fgm |-> fgm, fga |-> fga, fg_pct |-> fg_pct]

\* Rows of player_shooting_zones: player 1 in two of the six zones, in a
\* zone outside the six, in an earlier season, and with no attempts;
\* another player.
ShootingPool ==
    { ShootingRow(1, "2024-25", "Mid-Range", <<9, 1>>, <<20, 1>>, <<45, 1>>),
      ShootingRow(1, "2024-25", "Restricted Area", <<6, 1>>, <<10, 1>>, <<60, 1>>),
      ShootingRow(1, "2024-25", "Backcourt", <<0, 1>>, <<4, 1>>, <<0, 1>>),
      ShootingRow(1, "2023-24", "Mid-Range", <<3, 1>>, <<10, 1>>, <<30, 1>>),
      ShootingRow(1, "2024-25", "Left Corner 3", <<0, 1>>, <<0, 1>>, <<0, 1>>),
      ShootingRow(2, "2024-25", "Left Corner 3", <<2, 1>>, <<5, 1>>, <<40, 1>>) }

DefenseRow(team, season, zone, opp_fg_pct) ==
    [team_id |-> team, season |-> season, zone_name |-> zone,
     opp_fg_pct |-> opp_fg_pct]

\* Rows of team_defensive_zones: team 10 is the opponent of the requests.
DefensePool ==
    { DefenseRow(10, "2024-25", "Mid-Range", <<2, 5>>),
      DefenseRow(20, "2024-25", "Mid-Range", <<2, 5>>),
      DefenseRow(30, "2024-25", "Mid-Range", <<7, 20>>),
      DefenseRow(10, "2023-24", "Mid-Range", <<1, 2>>),
      DefenseRow(10, "2024-25", "Restricted Area", <<3, 5>>),
      DefenseRow(20, "2024-25", "Restricted Area", <<13, 20>>),
      DefenseRow(20, "2024-25", "Backcourt", <<1, 4>>) }

PlayerStatsTables == {{}, {[player_id |-> 1, player_name |-> "Player One"]}}
TeamsTables == {{}, {[team_id |-> 10, full_name |-> "Team Ten"]}}

NoFetch == <<>>

InitZones ==
    /\ NoRequest
    /\ fn = "get_shooting_zone_matchup"
    /\ args = [player_id |-> 1, opponent_team_id |-> 10]
    /\ ret = NoRet
    /\ fetched = NoFetch
    /\ db \in [player_stats : PlayerStatsTables,
               teams : TeamsTables,
               player_shooting_zones : SubsetsUpTo(ShootingPool, MaxShootingRows),
               team_defensive_zones : SubsetsUpTo(DefensePool, MaxDefenseRows)]

\* The whole of get_shooting_zone_matchup: its five queries, then the loop.
CallShootingZoneMatchup ==
    /\ fn = "get_shooting_zone_matchup"
    /\ ret = NoRet
    /\ \E player_name \in player_name_query(args.player_id),
          opponent_name \in team_name_query(args.opponent_team_id),
          player_zones \in get_shooting_zones(args.player_id),
          opponent_def_zones \in get_defensive_zones(args.opponent_team_id),
          all_def_zones \in all_def_zones_query :
          /\ fetched' = [player_zones |-> player_zones,
                         opponent_def_zones |-> opponent_def_zones,
                         all_def_zones |-> all_def_zones]
          /\ ret' = <<get_shooting_zone_matchup(
                        args.player_id, args.opponent_team_id, player_name,
                        opponent_name, player_zones, opponent_def_zones,
                        all_def_zones)>>
    /\ UNCHANGED <<fn, args, db, request_vars>>

NextZones == CallShootingZoneMatchup

SpecZones == InitZones /\ [][NextZones]_vars

------------------------------------------------------------------------------
(* Properties of the shooting-zone matchup, checked under SpecZones.        *)

ZonesReturned == fn = "get_shooting_zone_matchup" /\ ret # NoRet
Zones == Unwrap(ret).zones

\* The six zones in display order, and the three-point ones among them.
SixZones ==
    <<"Above the Break 3", "In The Paint (Non-RA)", "Left Corner 3",
      "Mid-Range", "Restricted Area", "Right Corner 3">>
ThreePointZones == {"Above the Break 3", "Left Corner 3", "Right Corner 3"}

\* The player's rows and the opponent's rows for a zone, in the tables.
PlayerRowsIn(z) ==
    {r \in db.player_shooting_zones :
        r.player_id = args.player_id /\ r.zone_name = z}
OpponentRowsIn(z) ==
    {r \in db.team_defensive_zones :
        r.team_id = args.opponent_team_id /\ r.zone_name = z}
LeagueRowsIn(z) == {r \in db.team_defensive_zones : r.zone_name = z}

\* C11: the response always holds six entries, one per fixed zone name in
\* the fixed order, flagged three-point on the three 3-point zones only,
\* whatever rows exist; where the player has no row for the zone the entry
\* reports zero makes, attempts, percentage and player_volume_pct.
C11_SixZonesZeroFilled ==
    ZonesReturned =>
        /\ Len(Zones) = 6
        /\ \A i \in 1..6 :
              /\ Zones[i].zone_name = SixZones[i]
              /\ Zones[i].is_three = (SixZones[i] \in ThreePointZones)
              /\ PlayerRowsIn(SixZones[i]) = {} =>
                    /\ Zones[i].player_fgm = RZero
                    /\ Zones[i].player_fga = RZero
                    /\ Zones[i].player_fg_pct = RZero
                    /\ Zones[i].player_volume_pct = RZero

\* C11's case: the player has rows in two of the six zones and one outside
\* them; the other four entries are zero-filled.
C11_TwoZonesAndBackcourt ==
    /\ ZonesReturned
    /\ PlayerRowsIn("Mid-Range") # {}
    /\ PlayerRowsIn("Restricted Area") # {}
    /\ PlayerRowsIn("Backcourt") # {}
    /\ Zones[4].player_fga # RZero
    /\ Zones[1].player_fga = RZero

\* C12: has_data is true exactly when the player has a row for the zone
\* and the opponent has a defensive row for it.
C12_HasDataIffBothRows ==
    ZonesReturned =>
        \A i \in 1..Len(Zones) :
            Zones[i].has_data <=>
                /\ PlayerRowsIn(Zones[i].zone_name) # {}
                /\ OpponentRowsIn(Zones[i].zone_name) # {}

\* C12's case: one zone has both rows, one the player's only, one the
\* opponent's only.
C12_BothPlayerOnlyOpponentOnly ==
    /\ ZonesReturned
    /\ \E i \in 1..Len(Zones) : Zones[i].has_data
    /\ \E i \in 1..Len(Zones) :
          PlayerRowsIn(Zones[i].zone_name) # {}
          /\ OpponentRowsIn(Zones[i].zone_name) = {}
    /\ \E i \in 1..Len(Zones) :
          PlayerRowsIn(Zones[i].zone_name) = {}
          /\ OpponentRowsIn(Zones[i].zone_name) # {}


\* The attempts the six entries report, summed, and their volumes, summed.
RECURSIVE SumOfEntries(_, _)
SumOfEntries(field, i) ==
    IF i > Len(Zones) THEN RZero
    ELSE RAdd(Zones[i][field], SumOfEntries(field, i + 1))
SixZoneAttempts == SumOfEntries("player_fga", 1)

\* C13: player_volume_pct is the player's attempts in the zone over the
\* player's total attempts across the six fixed zones, as a percentage,
\* and 0 when that total is 0; with a positive total the six values sum
\* to 100.
C13_VolumeOverSixZoneTotal ==
    ZonesReturned =>
        /\ \A i \in 1..Len(Zones) :
              Zones[i].player_volume_pct =
                  IF RGt(SixZoneAttempts, RZero)
                  THEN RMul(RDiv(Zones[i].player_fga, SixZoneAttempts), Hundred)
                  ELSE RZero
        /\ RGt(SixZoneAttempts, RZero) =>
              SumOfEntries("player_volume_pct", 1) = Hundred

\* C13, where it fails: 20 attempts in Mid-Range and 4 in the Backcourt
\* give Mid-Range a volume of 83.3 and not 100.
C13_BackcourtCountedInTotal ==
    /\ ZonesReturned
    /\ {r.zone_name : r \in db.player_shooting_zones} = {"Mid-Range", "Backcourt"}
    /\ Cardinality(db.player_shooting_zones) = 2
    /\ Unwrap(ret).total_fga = <<24, 1>>
    /\ Zones[4].player_volume_pct = <<250, 3>>

\* C13 holds where every row of the player is in one of the six zones,
\* one row to a zone.
C13_HoldsWithinSixZones ==
    (/\ ZonesReturned
     /\ \A r \in db.player_shooting_zones :
           r.player_id = args.player_id =>
               /\ \E i \in 1..6 : SixZones[i] = r.zone_name
               /\ Cardinality(PlayerRowsIn(r.zone_name)) = 1)
    => C13_VolumeOverSixZoneTotal


\* The league-wide rows of a zone in the order the query returned them,
\* and what holds of an opponent's rank n in that list whatever the ties:
\* the list is every row of the zone in ascending order of the allowed
\* fraction, n is within it, and row n is the opponent's first.
LeagueListOf(z) == filter_zone(fetched.all_def_zones, z)
RankIsPositionOfOpponent(z, n) ==
    LET L == LeagueListOf(z)
    IN  /\ Len(L) = Cardinality(LeagueRowsIn(z))
        /\ \A j, k \in 1..Len(L) :
              j < k => RLe(L[j].opp_fg_pct, L[k].opp_fg_pct)
        /\ n \in 1..Len(L)
        /\ L[n].team_id = args.opponent_team_id
        /\ \A j \in 1..(n - 1) : L[j].team_id # args.opponent_team_id
NoneAllowsLess(z, n) ==
    \A r \in LeagueRowsIn(z) :
        ~RLt(r.opp_fg_pct, LeagueListOf(z)[n].opp_fg_pct)

\* C14 as stated: with a defensive row of the opponent for the zone,
\* opp_rank is the 1-based position of that row among all teams' rows for
\* the zone sorted ascending by allowed fraction, between 1 and the
\* number of rows, and 1 exactly when no team allows less; without such a
\* row it is 15.
C14_RankOneExactlyWhenNoneAllowsLess ==
    ZonesReturned =>
        \A i \in 1..Len(Zones) :
            LET z == Zones[i].zone_name
                n == Zones[i].opp_rank
            IN  IF OpponentRowsIn(z) # {}
                THEN /\ RankIsPositionOfOpponent(z, n)
                     /\ n = 1 <=> NoneAllowsLess(z, n)
                ELSE n = 15

\* C14 amended: the position is that of the opponent's first row in the
\* list as returned; the rows before it are rows of other teams allowing
\* no more, and every row allowing strictly less is among them.  So the
\* rank is 1 only if no team allows less, and is 1 whenever every other
\* team's row allows strictly more.
C14_RankIsSortPosition ==
    ZonesReturned =>
        \A i \in 1..Len(Zones) :
            LET z == Zones[i].zone_name
                n == Zones[i].opp_rank
            IN  IF OpponentRowsIn(z) # {}
                THEN /\ RankIsPositionOfOpponent(z, n)
                     /\ \A r \in OpponentRowsIn(z) :
                           RLe(LeagueListOf(z)[n].opp_fg_pct, r.opp_fg_pct)
                     /\ Cardinality({r \in LeagueRowsIn(z) :
                           RLt(r.opp_fg_pct, LeagueListOf(z)[n].opp_fg_pct)})
                        <= n - 1
                     /\ n - 1 <=
                        Cardinality({r \in LeagueRowsIn(z) :
                           /\ r.team_id # args.opponent_team_id
                           /\ RLe(r.opp_fg_pct, LeagueListOf(z)[n].opp_fg_pct)})
                     /\ n = 1 => NoneAllowsLess(z, n)
                     /\ (\A r \in LeagueRowsIn(z) :
                            r.team_id # args.opponent_team_id =>
                                RGt(r.opp_fg_pct, LeagueListOf(z)[n].opp_fg_pct))
                        => n = 1
                ELSE n = 15

\* C14's case: the opponent is tied for the lowest fraction in Mid-Range
\* and listed second, is ranked second of three in another table, and has
\* no row for a third zone.
C14_TiedForLowestRankedSecond ==
    /\ ZonesReturned
    /\ OpponentRowsIn("Mid-Range") # {}
    /\ Zones[4].opp_rank = 2
    /\ NoneAllowsLess("Mid-Range", 2)
    /\ Zones[5].opp_rank = 15
    /\ LeagueRowsIn("Restricted Area") # {}


\* The mean of the stored fractions of a set of defensive rows.
RECURSIVE SumOfFractions(_)
SumOfFractions(S) ==
    IF S = {} THEN RZero
    ELSE LET r == CHOOSE x \in S : TRUE
         IN  RAdd(r.opp_fg_pct, SumOfFractions(S \ {r}))
MeanFraction(S) ==
    IF S = {} THEN RZero ELSE RDiv(SumOfFractions(S), <<Cardinality(S), 1>>)

\* The request's inputs with c percentage points added to every player
\* percentage and c/100 to every stored fraction, and the zones computed
\* from them.
Shifts == {<<5, 1>>, <<-5, 2>>}
ShiftPlayerRows(rows, c) ==
    [i \in 1..Len(rows) |-> [rows[i] EXCEPT !.fg_pct = RAdd(@, c)]]
ShiftDefenseRows(rows, c) ==
    [i \in 1..Len(rows) |->
        [rows[i] EXCEPT !.opp_fg_pct = RAdd(@, RDiv(c, Hundred))]]
ShiftedZones(c) ==
    get_shooting_zone_matchup(
        args.player_id, args.opponent_team_id, None, None,
        ShiftPlayerRows(fetched.player_zones, c),
        ShiftDefenseRows(fetched.opponent_def_zones, c),
        ShiftDefenseRows(fetched.all_def_zones, c)).zones

\* C15: for every zone, advantage = (player_fg_pct - league_avg_pct) +
\* (opp_fg_pct - league_avg_pct), opp_fg_pct being the opponent's stored
\* fraction times 100 and league_avg_pct the mean stored fraction of the
\* zone times 100; adding one constant to the player percentage, the
\* opponent-allowed percentage and the league average leaves advantage
\* unchanged.
C15_AdvantageFormulaShiftInvariant ==
    ZonesReturned =>
        \A i \in 1..Len(Zones) :
            LET e == Zones[i]
                z == e.zone_name
            IN  /\ e.advantage =
                      RAdd(RSub(e.player_fg_pct, e.league_avg_pct),
                           RSub(e.opp_fg_pct, e.league_avg_pct))
                /\ e.league_avg_pct = RMul(MeanFraction(LeagueRowsIn(z)), Hundred)
                /\ IF OpponentRowsIn(z) = {} THEN e.opp_fg_pct = RZero
                   ELSE \E r \in OpponentRowsIn(z) :
                           e.opp_fg_pct = RMul(r.opp_fg_pct, Hundred)
                /\ e.has_data =>
                      \A c \in Shifts :
                          LET f == ShiftedZones(c)[i]
                          IN  /\ f.player_fg_pct = RAdd(e.player_fg_pct, c)
                              /\ f.opp_fg_pct = RAdd(e.opp_fg_pct, c)
                              /\ f.league_avg_pct = RAdd(e.league_avg_pct, c)
                              /\ f.advantage = e.advantage

\* C15's case: a zone with the player's row, the opponent's row and a
\* second team's row, the three percentages all different.
C15_ThreeDifferentPercentages ==
    /\ ZonesReturned
    /\ \E i \in 1..Len(Zones) :
          /\ Zones[i].has_data
          /\ Cardinality(LeagueRowsIn(Zones[i].zone_name)) >= 2
          /\ Zones[i].opp_fg_pct # Zones[i].league_avg_pct
          /\ Zones[i].player_fg_pct # Zones[i].league_avg_pct
          /\ Zones[i].advantage # RZero


\* The end-to-end scenario: the player has rows for Mid-Range and
\* Restricted Area only, one each, and in both zones the opponent has a
\* row and allows exactly the league average.
MidRangeAndRestrictedAreaAtLeagueAverage ==
    /\ ZonesReturned
    /\ {r.zone_name : r \in {x \in db.player_shooting_zones :
                                x.player_id = args.player_id}}
       = {"Mid-Range", "Restricted Area"}
    /\ \A z \in {"Mid-Range", "Restricted Area"} :
          /\ Cardinality(PlayerRowsIn(z)) = 1
          /\ OpponentRowsIn(z) # {}
          /\ \A r \in OpponentRowsIn(z) :
                r.opp_fg_pct = MeanFraction(LeagueRowsIn(z))

\* C16 as stated: in the scenario the advantage reported for Mid-Range and
\* for Restricted Area equals oppVsLeague alone, the opponent's allowed
\* percentage minus the league average.
C16_ScenarioAdvantageIsOppVsLeague ==
    MidRangeAndRestrictedAreaAtLeagueAverage =>
        \A i \in {4, 5} :
            Zones[i].advantage =
                RSub(Zones[i].opp_fg_pct, Zones[i].league_avg_pct)

\* C16 amended: in the scenario oppVsLeague is zero and the advantage
\* equals playerVsLeague alone, the player's percentage in the zone minus
\* the league average.
C16_ScenarioAdvantageIsPlayerVsLeague ==
    MidRangeAndRestrictedAreaAtLeagueAverage =>
        \A i \in {4, 5} :
            /\ RSub(Zones[i].opp_fg_pct, Zones[i].league_avg_pct) = RZero
            /\ \E r \in PlayerRowsIn(Zones[i].zone_name) :
                  Zones[i].advantage =
                      RSub(r.fg_pct,
                           RMul(MeanFraction(LeagueRowsIn(Zones[i].zone_name)),
                                Hundred))

\* C16's case: the scenario with the player at 45 in Mid-Range, where the
\* league allows 40, and at 60 in the Restricted Area, where it allows 60.
C16_ScenarioFivePointsInMidRange ==
    /\ MidRangeAndRestrictedAreaAtLeagueAverage
    /\ Cardinality(LeagueRowsIn("Mid-Range")) = 2
    /\ Zones[4].advantage = <<5, 1>>
    /\ Zones[5].advantage = RZero

------------------------------------------------------------------------------
(* Assist-zone matchup: get_assist_zones_with_team_defense.                 *)

\* Result<T, sqlx::Error>
Ok(v) == <<"Ok", v>>
Err(e) == <<"Err", e>>
IsOk(r) == r[1] = "Ok"

\* SELECT ... FROM player_assist_zones WHERE player_id = ? ORDER BY ast DESC
get_assist_zones(player_id) ==
    LET S == {r \in db.player_assist_zones : r.player_id = player_id}
    IN  Sorted(S, [p \in S \X S |-> p[1].assists >= p[2].assists])

\* player_zones.iter().map(|z| z.assists).sum()
RECURSIVE sum_assists(_)
sum_assists(rows) ==
    IF rows = <<>> THEN 0 ELSE Head(rows).assists + sum_assists(Tail(rows))

\* The rank with the teams tied with the opponent counted as better.
count_lower_or_equal(all_team_zones, zone_name, fg_pct) ==
    Cardinality({i \in 1..Len(all_team_zones) :
        /\ all_team_zones[i].zone_name = zone_name
        /\ RLe(all_team_zones[i].opp_fg_pct, fg_pct)})

\* all_team_zones.iter().filter(|(_, zone, fg_pct)| zone == zone_name &&
\* fg_pct < opp_fg_pct).count()
count_lower(all_team_zones, zone_name, fg_pct) ==
    Cardinality({i \in 1..Len(all_team_zones) :
        /\ all_team_zones[i].zone_name = zone_name
        /\ RLt(all_team_zones[i].opp_fg_pct, fg_pct)})

\* One turn of the loop over player_zones.
AssistZoneMatchup(player_zone, opponent_def_zones, all_team_zones, total_assists) ==
    LET opp_def == find_zone(opponent_def_zones, player_zone.zone_name)
        ranked  == IF opp_def # None
                   THEN <<Unwrap(opp_def).opp_fg_pct,
                          count_lower(all_team_zones, player_zone.zone_name,
                                      Unwrap(opp_def).opp_fg_pct) + 1,
                          TRUE>>
                   ELSE <<RZero, 0, FALSE>>
        player_ast_pct ==
            IF total_assists > 0
            THEN RMul(Rat(player_zone.assists, total_assists), Hundred)
            ELSE RZero
    IN  [zone_name |-> player_zone.zone_name,
         player_assists |-> player_zone.assists,
         player_ast_pct |-> player_ast_pct,
         opp_def_rank |-> ranked[2],
         opp_def_fg_pct |-> ranked[1],
         has_data |-> ranked[3]]

\* fetch_one fails with RowNotFound where the name tables hold no row.
get_assist_zones_with_team_defense(player_name, opponent_name, player_zones, opponent_def_zones, all_team_zones) ==
    IF player_name = None \/ opponent_name = None THEN Err("RowNotFound")
    ELSE LET total_assists == sum_assists(player_zones)
         IN  Ok([player_name |-> Unwrap(player_name),
                 opponent_name |-> Unwrap(opponent_name),
                 total_assists |-> total_assists,
                 zones |-> [i \in 1..Len(player_zones) |->
                               AssistZoneMatchup(player_zones[i],
                                                 opponent_def_zones,
                                                 all_team_zones,
                                                 total_assists)]])

MaxAssistRows == 3

AssistRow(player, season, zone, assists, fgm, fga) ==
    [player_id |-> player, season |-> season, zone_name |-> zone,
     assists |-> assists, ast_fgm |-> fgm, ast_fga |-> fga]

\* Rows of player_assist_zones: player 1 in zones the opponent defends and
\* in zones it has no row for, with equal counts and with none.
AssistPool ==
    { AssistRow(1, "2024-25", "Mid-Range", 30, 30, 70),
      AssistRow(1, "2024-25", "Restricted Area", 50, 50, 80),
      AssistRow(1, "2024-25", "Left Corner 3", 20, 20, 50),
      AssistRow(1, "2024-25", "Backcourt", 0, 0, 1),
      AssistRow(1, "2023-24", "Mid-Range", 30, 30, 60),
      AssistRow(2, "2024-25", "Mid-Range", 10, 10, 20) }

InitAssist ==
    /\ NoRequest
    /\ fn = "get_assist_zones_with_team_defense"
    /\ args = [player_id |-> 1, opponent_team_id |-> 10]
    /\ ret = NoRet
    /\ fetched = NoFetch
    /\ db \in [player_stats : PlayerStatsTables,
               teams : TeamsTables,
               player_assist_zones : SubsetsUpTo(AssistPool, MaxAssistRows),
               team_defensive_zones : SubsetsUpTo(DefensePool, MaxDefenseRows)]

\* The whole of get_assist_zones_with_team_defense.
CallAssistZones ==
    /\ fn = "get_assist_zones_with_team_defense"
    /\ ret = NoRet
    /\ \E player_name \in player_name_query(args.player_id),
          opponent_name \in team_name_query(args.opponent_team_id),
          player_zones \in get_assist_zones(args.player_id),
          opponent_def_zones \in get_defensive_zones(args.opponent_team_id),
          all_team_zones \in all_def_zones_query :
          /\ fetched' = [player_zones |-> player_zones,
                         opponent_def_zones |-> opponent_def_zones,
                         all_team_zones |-> all_team_zones]
          /\ ret' = <<get_assist_zones_with_team_defense(
                        player_name, opponent_name, player_zones,
                        opponent_def_zones, all_team_zones)>>
    /\ UNCHANGED <<fn, args, db, request_vars>>

NextAssist == CallAssistZones

SpecAssist == InitAssist /\ [][NextAssist]_vars

------------------------------------------------------------------------------
(* Properties of the assist-zone matchup, checked under SpecAssist.         *)

AssistReturned ==
    fn = "get_assist_zones_with_team_defense" /\ ret # NoRet /\ IsOk(Unwrap(ret))
AssistZones == Unwrap(ret)[2].zones

\* Teams other than the opponent with one row for the zone, allowing the
\* given fraction.
TeamsTiedAt(z, fraction) ==
    {t \in {r.team_id : r \in LeagueRowsIn(z)} \ {args.opponent_team_id} :
        \A r \in LeagueRowsIn(z) :
            r.team_id = t => r.opp_fg_pct = fraction}

\* C17: there is one entry per zone row of the player; where the opponent
\* has a row for the zone, opp_def_rank is one plus the number of team
\* rows for the zone allowing strictly less than the opponent, so a team
\* tied with the opponent is given the same rank when it is the opponent;
\* where the opponent has no row, has_data is false, rank and percentage 0.
C17_AssistRankCountsStrictlyLower ==
    AssistReturned =>
        /\ Len(AssistZones) = Len(fetched.player_zones)
        /\ \A i \in 1..Len(AssistZones) :
              LET e == AssistZones[i]
                  z == e.zone_name
              IN  /\ z = fetched.player_zones[i].zone_name
                  /\ IF OpponentRowsIn(z) # {}
                     THEN /\ e.has_data
                          /\ \E r \in OpponentRowsIn(z) :
                                e.opp_def_fg_pct = r.opp_fg_pct
                          /\ e.opp_def_rank = 1 +
                                Cardinality({r \in LeagueRowsIn(z) :
                                    RLt(r.opp_fg_pct, e.opp_def_fg_pct)})
                          /\ \A t \in TeamsTiedAt(z, e.opp_def_fg_pct) :
                                \A rows \in get_defensive_zones(t) :
                                    AssistZoneMatchup(
                                        fetched.player_zones[i], rows,
                                        fetched.all_team_zones,
                                        Unwrap(ret)[2].total_assists
                                    ).opp_def_rank = e.opp_def_rank
                     ELSE /\ ~e.has_data
                          /\ e.opp_def_rank = 0
                          /\ e.opp_def_fg_pct = RZero

\* C17's case: the opponent is tied with another team behind a third, so
\* ranked 2 of 3, in one zone of the player, and has no row for another.
C17_TiedSecondAndNoRow ==
    /\ AssistReturned
    /\ \E i \in 1..Len(AssistZones) :
          /\ AssistZones[i].opp_def_rank = 2
          /\ TeamsTiedAt(AssistZones[i].zone_name,
                         AssistZones[i].opp_def_fg_pct) # {}
    /\ \E i \in 1..Len(AssistZones) : ~AssistZones[i].has_data

------------------------------------------------------------------------------
(* Play-type matchup: get_team_defensive_play_type_ranks (db/mod.rs) and    *)
(* get_player_play_type_matchup (routes/players.rs); the copies under       *)
(* src/nba_stats_api are the same text.                                     *)

\* SELECT * FROM player_play_types WHERE player_id = ?
\* ORDER BY points_per_game DESC
get_player_playtypes(player_id) ==
    LET S == {r \in db.player_play_types : r.player_id = player_id}
    IN  Sorted(S, [p \in S \X S |->
                      RGe(p[1].points_per_game, p[2].points_per_game)])

\* SELECT * FROM team_defensive_play_types WHERE team_id = ? ORDER BY ppp ASC
get_defensive_play_types(team_id) ==
    LET S == {r \in db.team_defensive_play_types : r.team_id = team_id}
    IN  Sorted(S, [p \in S \X S |-> RLe(p[1].ppp, p[2].ppp)])

\* SELECT team_id, play_type, ppp FROM team_defensive_play_types
\* ORDER BY play_type, ppp ASC
rank_rows_query ==
    LET S  == db.team_defensive_play_types
        le == [p \in S \X S |->
                  \/ TextIndex(p[1].play_type) < TextIndex(p[2].play_type)
                  \/ /\ p[1].play_type = p[2].play_type
                     /\ RLe(p[1].ppp, p[2].ppp)]
    IN  {[i \in 1..Len(t) |->
             [team_id |-> t[i].team_id, play_type |-> t[i].play_type,
              ppp |-> t[i].ppp]] : t \in Sorted(S, le)}

\* SELECT * FROM player_stats WHERE player_id = ? and
\* SELECT * FROM teams WHERE team_id = ?: fetch_optional.
get_player_by_id(player_id) ==
    IF \E r \in db.player_stats : r.player_id = player_id
    THEN {Some(r) : r \in {x \in db.player_stats : x.player_id = player_id}}
    ELSE {None}
get_team_by_id(team_id) ==
    IF \E r \in db.teams : r.team_id = team_id
    THEN {Some(r) : r \in {x \in db.teams : x.team_id = team_id}}
    ELSE {None}

\* HashMap::insert
insert(map, key, value) ==
    [k \in DOMAIN map \cup {key} |-> IF k = key THEN value ELSE map[k]]

\* The rank of a row, the counter never restarted.
rank_of_row_no_restart(play_type, current_play_type, rank) == rank + 1

\* The rank of a row: the counter restarts where the play type changes.
rank_of_row(play_type, current_play_type, rank) ==
    (IF play_type # current_play_type THEN 0 ELSE rank) + 1

\* The loop over the rows, from the given current_play_type, rank and map.
RECURSIVE assign_ranks(_, _, _, _)
assign_ranks(rows, current_play_type, rank, ranks) ==
    IF rows = <<>> THEN ranks
    ELSE LET row  == Head(rows)
             next == rank_of_row(row.play_type, current_play_type, rank)
         IN  assign_ranks(Tail(rows), row.play_type, next,
                          insert(ranks, <<row.team_id, row.play_type>>, next))

\* The loop starts with String::new(), 0 and an empty map.
get_team_defensive_play_type_ranks(rows) == assign_ranks(rows, "", 0, <<>>)

\* iter().find(|d| d.play_type == play_type)
RECURSIVE find_play_type(_, _)
find_play_type(rows, play_type) ==
    IF rows = <<>> THEN None
    ELSE IF Head(rows).play_type = play_type THEN Some(Head(rows))
    ELSE find_play_type(Tail(rows), play_type)

\* A lookup that never finds the key.
get_rank_never_found(ranks, key) == 0

\* ranks.get(&key).copied().unwrap_or(0)
get_rank(ranks, key) == IF key \in DOMAIN ranks THEN ranks[key] ELSE 0

\* The closure with a zero-filled entry where the opponent has no row.
PlayTypeMatchupZeroFilled(pt, opp_defense, ranks, opponent_id) ==
    LET opp_def == find_play_type(opp_defense, pt.play_type)
    IN  Some([play_type |-> pt.play_type,
              player_ppg |-> pt.points_per_game,
              pct_of_total |-> pt.pct_of_total_points,
              opp_ppp |-> IF opp_def = None THEN RZero ELSE Unwrap(opp_def).ppp,
              opp_rank |-> get_rank(ranks, <<opponent_id, pt.play_type>>)])

\* The filter_map closure: None where the opponent has no row.
PlayTypeMatchup(pt, opp_defense, ranks, opponent_id) ==
    LET opp_def == find_play_type(opp_defense, pt.play_type)
    IN  IF opp_def = None THEN None
        ELSE Some([play_type |-> pt.play_type,
                   player_ppg |-> pt.points_per_game,
                   pct_of_total |-> pt.pct_of_total_points,
                   opp_ppp |-> Unwrap(opp_def).ppp,
                   opp_rank |-> get_rank(ranks, <<opponent_id, pt.play_type>>)])

RECURSIVE filter_map_matchups(_, _, _, _)
filter_map_matchups(player_play_types, opp_defense, ranks, opponent_id) ==
    IF player_play_types = <<>> THEN <<>>
    ELSE LET m == PlayTypeMatchup(Head(player_play_types), opp_defense,
                                  ranks, opponent_id)
         IN  (IF m = None THEN <<>> ELSE <<Unwrap(m)>>)
             \o filter_map_matchups(Tail(player_play_types), opp_defense,
                                    ranks, opponent_id)

\* matchups.sort_by(|a, b| b.player_ppg.partial_cmp(&a.player_ppg)..): a
\* stable sort, equal elements keep their order.
RECURSIVE insert_by_ppg(_, _)
insert_by_ppg(sorted, m) ==
    IF sorted = <<>> THEN <<m>>
    ELSE IF RGt(m.player_ppg, Head(sorted).player_ppg) THEN <<m>> \o sorted
    ELSE <<Head(sorted)>> \o insert_by_ppg(Tail(sorted), m)
RECURSIVE sort_by_ppg_desc(_)
sort_by_ppg_desc(ms) ==
    IF ms = <<>> THEN <<>>
    ELSE insert_by_ppg(sort_by_ppg_desc(SubSeq(ms, 1, Len(ms) - 1)),
                       ms[Len(ms)])


\* The route: 404 where the player or the opponent is unknown, else the
\* matchups of the player's play types the opponent has a row for.
get_player_play_type_matchup(player, opponent, player_play_types, opp_defense, ranks, opponent_id) ==
    IF player = None \/ opponent = None THEN Err("NOT_FOUND")
    ELSE Ok([player_name |-> Unwrap(player).player_name,
             opponent_name |-> Unwrap(opponent).full_name,
             matchups |-> sort_by_ppg_desc(
                 filter_map_matchups(player_play_types, opp_defense, ranks,
                                     opponent_id))])

MaxPlayTypeRows == 3
MaxDefPlayTypeRows == 4

PlayTypeRow(player, season, play_type, ppg, pct) ==
    [player_id |-> player, season |-> season, play_type |-> play_type,
     points_per_game |-> ppg, pct_of_total_points |-> pct]

\* Rows of player_play_types: player 1 with two play types level on
\* points per game and an earlier season's row; another player.
PlayTypePool ==
    { PlayTypeRow(1, "2024-25", "Isolation", <<6, 1>>, <<30, 1>>),
      PlayTypeRow(1, "2024-25", "Spotup", <<4, 1>>, <<20, 1>>),
      PlayTypeRow(1, "2024-25", "Cut", <<4, 1>>, <<20, 1>>),
      PlayTypeRow(1, "2023-24", "Isolation", <<5, 1>>, <<25, 1>>),
      PlayTypeRow(2, "2024-25", "Spotup", <<3, 1>>, <<15, 1>>) }

DefPlayTypeRow(team, season, play_type, ppp) ==
    [team_id |-> team, season |-> season, play_type |-> play_type,
     ppp |-> ppp]

\* Rows of team_defensive_play_types: three teams on Isolation, two of
\* them level, and an earlier season's row of each.
DefPlayTypePool ==
    { DefPlayTypeRow(10, "2024-25", "Isolation", <<9, 10>>),
      DefPlayTypeRow(20, "2024-25", "Isolation", <<9, 10>>),
      DefPlayTypeRow(30, "2024-25", "Isolation", <<4, 5>>),
      DefPlayTypeRow(20, "2023-24", "Isolation", <<17, 20>>),
      DefPlayTypeRow(10, "2023-24", "Isolation", <<19, 20>>),
      DefPlayTypeRow(30, "2023-24", "Isolation", <<1, 1>>),
      DefPlayTypeRow(10, "2024-25", "Spotup", <<1, 1>>),
      DefPlayTypeRow(20, "2024-25", "Spotup", <<11, 10>>),
      DefPlayTypeRow(30, "2024-25", "Cut", <<6, 5>>) }

InitPlayTypes ==
    /\ NoRequest
    /\ ret = NoRet
    /\ fetched = NoFetch
    /\ \/ /\ fn = "get_player_play_type_matchup"
          /\ args = [player_id |-> 1, opponent_id |-> 10]
          /\ db \in [player_stats : PlayerStatsTables,
                     teams : TeamsTables,
                     player_play_types :
                         SubsetsUpTo(PlayTypePool, MaxPlayTypeRows),
                     team_defensive_play_types :
                         SubsetsUpTo(DefPlayTypePool, MaxDefPlayTypeRows)]
       \/ /\ fn = "get_team_defensive_play_type_ranks"
          /\ args = <<>>
          /\ db \in [player_stats : {{}},
                     teams : {{}},
                     player_play_types : {{}},
                     team_defensive_play_types :
                         SubsetsUpTo(DefPlayTypePool, MaxDefPlayTypeRows)]

\* The whole of get_team_defensive_play_type_ranks.
CallPlayTypeRanks ==
    /\ fn = "get_team_defensive_play_type_ranks"
    /\ ret = NoRet
    /\ \E rows \in rank_rows_query :
          /\ fetched' = [rank_rows |-> rows]
          /\ ret' = <<get_team_defensive_play_type_ranks(rows)>>
    /\ UNCHANGED <<fn, args, db, request_vars>>

\* The whole of the route get_player_play_type_matchup; the queries after
\* a 404 are not made.
CallPlayTypeMatchup ==
    /\ fn = "get_player_play_type_matchup"
    /\ ret = NoRet
    /\ \E player \in get_player_by_id(args.player_id),
          opponent \in get_team_by_id(args.opponent_id) :
          IF player = None \/ opponent = None
          THEN /\ fetched' = NoFetch
               /\ ret' = <<get_player_play_type_matchup(
                             player, opponent, <<>>, <<>>, <<>>,
                             args.opponent_id)>>
          ELSE \E player_play_types \in get_player_playtypes(args.player_id),
                  opp_defense \in get_defensive_play_types(args.opponent_id),
                  rows \in rank_rows_query :
                  LET ranks == get_team_defensive_play_type_ranks(rows)
                  IN  /\ fetched' = [player_play_types |-> player_play_types,
                                     opp_defense |-> opp_defense,
                                     rank_rows |-> rows,
                                     ranks |-> ranks]
                      /\ ret' = <<get_player_play_type_matchup(
                                    player, opponent, player_play_types,
                                    opp_defense, ranks, args.opponent_id)>>
    /\ UNCHANGED <<fn, args, db, request_vars>>

NextPlayTypes == CallPlayTypeRanks \/ CallPlayTypeMatchup

SpecPlayTypes == InitPlayTypes /\ [][NextPlayTypes]_vars

-------------------------------------------------------------------------------
(* Properties of the play-type matchup, checked under SpecPlayTypes.        *)

PlayTypesReturned ==
    fn = "get_player_play_type_matchup" /\ ret # NoRet /\ IsOk(Unwrap(ret))
Matchups == Unwrap(ret)[2].matchups

PlayerPlayTypeRows ==
    {r \in db.player_play_types : r.player_id = args.player_id}
OpponentPlayTypeRows ==
    {r \in db.team_defensive_play_types : r.team_id = args.opponent_id}
CoveredPlayTypes ==
    {r.play_type : r \in PlayerPlayTypeRows}
        \cap {r.play_type : r \in OpponentPlayTypeRows}

\* C18: the play types of the returned list are exactly those the player
\* has a row for and the opponent has a defensive row for, with one entry
\* per such row of the player; each entry carries the player's figures of
\* a row of that play type and a points-per-possession the opponent allows
\* in it; the list is non-increasing in the player's points per game.
C18_CoveredPlayTypesByPpg ==
    PlayTypesReturned =>
        /\ {Matchups[i].play_type : i \in 1..Len(Matchups)} = CoveredPlayTypes
        /\ Len(Matchups) =
              Cardinality({r \in PlayerPlayTypeRows :
                              r.play_type \in CoveredPlayTypes})
        /\ \A i \in 1..Len(Matchups) :
              /\ \E r \in PlayerPlayTypeRows :
                    /\ r.play_type = Matchups[i].play_type
                    /\ r.points_per_game = Matchups[i].player_ppg
                    /\ r.pct_of_total_points = Matchups[i].pct_of_total
              /\ \E r \in OpponentPlayTypeRows :
                    /\ r.play_type = Matchups[i].play_type
                    /\ r.ppp = Matchups[i].opp_ppp
        /\ \A i, j \in 1..Len(Matchups) :
              i < j => RGe(Matchups[i].player_ppg, Matchups[j].player_ppg)

\* C18's case: two play types of the player are covered by the opponent
\* and listed with different points per game, a third is not covered.
C18_TwoCoveredOneDropped ==
    /\ PlayTypesReturned
    /\ Len(Matchups) = 2
    /\ RGt(Matchups[1].player_ppg, Matchups[2].player_ppg)
    /\ \E r \in PlayerPlayTypeRows : r.play_type \notin CoveredPlayTypes

\* The rank table, returned by the function or held by the route.
RanksComputed ==
    /\ ret # NoRet
    /\ fn = "get_team_defensive_play_type_ranks" \/ PlayTypesReturned
Ranks ==
    IF fn = "get_team_defensive_play_type_ranks" THEN Unwrap(ret)
    ELSE fetched.ranks
RankRows == fetched.rank_rows

RankKey(row) == <<row.team_id, row.play_type>>
PositionInGroup(i) ==
    Cardinality({j \in 1..i : RankRows[j].play_type = RankRows[i].play_type})
LastRowOfKey(i) ==
    \A j \in (i + 1)..Len(RankRows) : RankKey(RankRows[j]) # RankKey(RankRows[i])

RowsOfPlayType(pt) == {r \in db.team_defensive_play_types : r.play_type = pt}
OneRowPerTeam(pt) ==
    \A r, q \in RowsOfPlayType(pt) : r.team_id = q.team_id => r = q
NoTies(pt) ==
    \A r, q \in RowsOfPlayType(pt) : r.ppp = q.ppp => r = q

\* C19: the rows of a play type are ranked in ascending order of points
\* per possession, a row's rank being its 1-based position among the rows
\* of its play type, so the count restarts at 1 with each play type; the
\* table holds the rank of each (team, play type). Where no two rows of a
\* play type are level and each team has one row, the ranks of its N teams
\* are exactly 1..N, a team's rank is one more than the number of teams
\* allowing less, and rank 1 is the team allowing least.
C19_SequentialRanksPerPlayType ==
    RanksComputed =>
        /\ DOMAIN Ranks = {RankKey(r) : r \in db.team_defensive_play_types}
        /\ \A i, j \in 1..Len(RankRows) :
              (i < j /\ RankRows[i].play_type = RankRows[j].play_type)
                  => RLe(RankRows[i].ppp, RankRows[j].ppp)
        /\ \A i \in 1..Len(RankRows) :
              LastRowOfKey(i) => Ranks[RankKey(RankRows[i])] = PositionInGroup(i)
        /\ \A pt \in {r.play_type : r \in db.team_defensive_play_types} :
              (OneRowPerTeam(pt) /\ NoTies(pt)) =>
                  /\ {Ranks[RankKey(r)] : r \in RowsOfPlayType(pt)}
                        = 1..Cardinality({r.team_id : r \in RowsOfPlayType(pt)})
                  /\ \A r \in RowsOfPlayType(pt) :
                        Ranks[RankKey(r)] = 1 +
                            Cardinality({q \in RowsOfPlayType(pt) :
                                            RLt(q.ppp, r.ppp)})

\* C19's case: three teams with one row each and no two level in one play
\* type, ranked 1, 2, 3, and a later play type whose only team is ranked 1.
C19_ThreeTeamsThenRestart ==
    /\ fn = "get_team_defensive_play_type_ranks"
    /\ ret # NoRet
    /\ OneRowPerTeam("Isolation") /\ NoTies("Isolation")
    /\ {Ranks[RankKey(r)] : r \in RowsOfPlayType("Isolation")} = {1, 2, 3}
    /\ \E r \in RowsOfPlayType("Spotup") : Ranks[RankKey(r)] = 1

\* C20: among the rows of a play type, one to a team, teams level on
\* points per possession hold the same rank, and every team's rank is one
\* more than the number of teams allowing strictly less, so the rank after
\* a group of level teams skips by the size of the group.
C20_TiedTeamsShareRankWithGap ==
    RanksComputed =>
        \A pt \in {r.play_type : r \in db.team_defensive_play_types} :
            OneRowPerTeam(pt) =>
                /\ \A r, q \in RowsOfPlayType(pt) :
                      r.ppp = q.ppp => Ranks[RankKey(r)] = Ranks[RankKey(q)]
                /\ \A r \in RowsOfPlayType(pt) :
                      Ranks[RankKey(r)] = 1 +
                          Cardinality({q \in RowsOfPlayType(pt) :
                                          RLt(q.ppp, r.ppp)})

\* C20's case: two teams level on points per possession are ranked 1 and
\* 2, and the team after them 3.
C20_TiedTeamsRankedOneAndTwo ==
    /\ fn = "get_team_defensive_play_type_ranks"
    /\ ret # NoRet
    /\ OneRowPerTeam("Isolation")
    /\ \E r, q, t \in RowsOfPlayType("Isolation") :
          /\ r.ppp = q.ppp /\ RLt(q.ppp, t.ppp)
          /\ Ranks[RankKey(r)] = 1
          /\ Ranks[RankKey(q)] = 2
          /\ Ranks[RankKey(t)] = 3

-------------------------------------------------------------------------------
(* Name normalization: normalize_name (db/mod.rs).  A name is a sequence of *)
(* chars, a char its Unicode scalar value.                                  *)

\* The match with every accented letter mapped to the lower-case letter.
normalize_char_lowercased(c) ==
    CASE c \in {225, 224, 228, 226, 227, 193, 192, 196, 194, 195} -> 97
      [] c \in {233, 232, 235, 234, 201, 200, 203, 202} -> 101
      [] c \in {237, 236, 239, 238, 205, 204, 207, 206} -> 105
      [] c \in {243, 242, 246, 244, 245, 211, 210, 214, 212, 213} -> 111
      [] c \in {250, 249, 252, 251, 218, 217, 220, 219} -> 117
      [] c \in {263, 269, 231, 262, 268, 199} -> 99
      [] c \in {241, 209} -> 110
      [] c \in {353, 352} -> 115
      [] c \in {382, 381} -> 122
      [] c \in {253, 255, 221, 376} -> 121
      [] c \in {273, 272} -> 100
      [] OTHER -> c

\* The match of normalize_name, arm by arm.
normalize_char(c) ==
    CASE c \in {225, 224, 228, 226, 227} -> 97
      [] c \in {233, 232, 235, 234} -> 101
      [] c \in {237, 236, 239, 238} -> 105
      [] c \in {243, 242, 246, 244, 245} -> 111
      [] c \in {250, 249, 252, 251} -> 117
      [] c \in {263, 269, 231} -> 99
      [] c = 241 -> 110
      [] c = 353 -> 115
      [] c = 382 -> 122
      [] c \in {253, 255} -> 121
      [] c = 273 -> 100
      [] c \in {193, 192, 196, 194, 195} -> 65
      [] c \in {201, 200, 203, 202} -> 69
      [] c \in {205, 204, 207, 206} -> 73
      [] c \in {211, 210, 214, 212, 213} -> 79
      [] c \in {218, 217, 220, 219} -> 85
      [] c \in {262, 268, 199} -> 67
      [] c = 209 -> 78
      [] c = 352 -> 83
      [] c = 381 -> 90
      [] c \in {221, 376} -> 89
      [] c = 272 -> 68
      [] OTHER -> c

\* name.chars().map(..).collect()
normalize_name(name) == [i \in 1..Len(name) |-> normalize_char(name[i])]

\* The chars the match names.
AccentedChars ==
    {225, 224, 228, 226, 227, 233, 232, 235, 234, 237, 236, 239, 238,
     243, 242, 246, 244, 245, 250, 249, 252, 251, 263, 269, 231, 241, 353,
     382, 253, 255, 273,
     193, 192, 196, 194, 195, 201, 200, 203, 202, 205, 204, 207, 206,
     211, 210, 214, 212, 213, 218, 217, 220, 219, 262, 268, 199, 209, 352,
     381, 221, 376, 272}

\* Chars the match does not name: space, hyphen, D, a, n, and the letters
\* sharp s, o with stroke, l with stroke, s with cedilla, a with ring, and
\* the combining acute accent.
OtherChars == {32, 45, 68, 97, 110, 223, 248, 322, 351, 229, 769}

\* "Luka Dončić" and "Luka Doncic"
LukaDoncicAccented == <<76, 117, 107, 97, 32, 68, 111, 110, 269, 105, 263>>
LukaDoncicPlain == <<76, 117, 107, 97, 32, 68, 111, 110, 99, 105, 99>>

MaxNameLen == 3

RECURSIVE StringsUpTo(_, _)
StringsUpTo(chars, n) ==
    IF n = 0 THEN {<<>>}
    ELSE LET shorter == StringsUpTo(chars, n - 1)
         IN  shorter \cup {Append(t, c) : t \in shorter, c \in chars}

\* The chars of the longer names: c with caron, c with acute, S with
\* caron, D with stroke, e with acute, O with tilde, a, space, o with
\* stroke, the combining acute accent.
NameChars == {269, 263, 352, 272, 233, 213, 97, 32, 248, 769}

\* Every char of the model alone, the longer names, and the two spellings.
Names ==
    {<<c>> : c \in AccentedChars \cup OtherChars}
        \cup StringsUpTo(NameChars, MaxNameLen)
        \cup {LukaDoncicAccented, LukaDoncicPlain}

InitNames ==
    /\ NoRequest
    /\ db = <<>>
    /\ fetched = NoFetch
    /\ fn = "normalize_name"
    /\ args \in Names
    /\ ret = NoRet

CallNormalizeName ==
    /\ fn = "normalize_name"
    /\ ret = NoRet
    /\ ret' = <<normalize_name(args)>>
    /\ UNCHANGED <<fn, args, db, fetched, request_vars>>

NextNames == CallNormalizeName

SpecNames == InitNames /\ [][NextNames]_vars

-------------------------------------------------------------------------------
(* Properties of normalize_name, checked under SpecNames.                   *)

Normalized == fn = "normalize_name" /\ ret # NoRet

\* Unicode's upper-case letters among the chars of the model.
IsUpperCase(c) ==
    \/ c \in 65..90
    \/ c \in 192..222
    \/ c \in {262, 268, 272, 352, 376, 381}
IsAsciiLetter(c) == c \in 65..90 \/ c \in 97..122

\* C22: normalizing the result again leaves it as it is; the result has as
\* many chars as the name; a char of the table becomes an ASCII letter of
\* the same case, c with caron and c with acute both c, so that
\* "Luka Dončić" becomes "Luka Doncic"; every other char stays as it is.
C22_IdempotentCharwiseSameCase ==
    Normalized =>
        LET out == Unwrap(ret)
        IN  /\ normalize_name(out) = out
            /\ Len(out) = Len(args)
            /\ \A i \in 1..Len(args) :
                  IF args[i] \in AccentedChars
                  THEN /\ IsAsciiLetter(out[i])
                       /\ IsUpperCase(out[i]) <=> IsUpperCase(args[i])
                       /\ args[i] \in {263, 269} => out[i] = 99
                  ELSE out[i] = args[i]
            /\ args = LukaDoncicAccented => out = LukaDoncicPlain

\* C22's case: "Luka Dončić" has been normalized and has changed.
C22_DoncicNormalized ==
    /\ Normalized
    /\ args = LukaDoncicAccented
    /\ Unwrap(ret) # args

-------------------------------------------------------------------------------
(* Player props: get_player_props (db/mod.rs).                              *)

\* chrono::Local::now().format("%Y-%m-%d") and the same a day later.
props_today == with_timezone(utc_now, server_tz).date
props_tomorrow ==
    with_timezone(<<utc_now[1] + 1, utc_now[2]>>, server_tz).date

\* SQLite's DATE() of the scheduled_at column; NULL stays NULL.
DATE(scheduled_at) ==
    IF scheduled_at = None THEN None ELSE Some(Unwrap(scheduled_at).date)

\* The columns the query selects (updated_at is not among them).
UnderdogProp(r) ==
    [id |-> r.id, full_name |-> r.full_name, team_name |-> r.team_name,
     opponent_name |-> r.opponent_name, stat_name |-> r.stat_name,
     stat_value |-> r.stat_value, choice |-> r.choice,
     american_price |-> r.american_price,
     decimal_price |-> r.decimal_price, scheduled_at |-> r.scheduled_at]

\* The inner SELECT's rows: WHERE full_name = ? AND DATE(scheduled_at) IN (?, ?)
props_in_window(full_name, today, tomorrow) ==
    {r \in db.underdog_props :
        /\ r.full_name = full_name
        /\ DATE(r.scheduled_at) \in {Some(today), Some(tomorrow)}}

\* PARTITION BY stat_name, choice
partition_key(r) == <<r.stat_name, r.choice>>

\* The query: of each partition the row numbered 1 by updated_at DESC (any
\* of the rows level on the greatest updated_at), ORDER BY stat_name, choice.
props_query(full_name, today, tomorrow) ==
    LET W     == props_in_window(full_name, today, tomorrow)
        keys  == {partition_key(r) : r \in W}
        rn1   == [k \in keys |->
                     {r \in W : /\ partition_key(r) = k
                                /\ \A q \in W : partition_key(q) = k
                                       => q.updated_at <= r.updated_at}]
        picks_of == {f \in [keys -> W] : \A k \in keys : f[k] \in rn1[k]}
        le(S) == [p \in S \X S |->
                     \/ TextIndex(p[1].stat_name) < TextIndex(p[2].stat_name)
                     \/ /\ p[1].stat_name = p[2].stat_name
                        /\ TextLe(p[1].choice, p[2].choice)]
    IN  UNION {LET S == {f[k] : k \in keys}
               IN  {[i \in 1..Len(t) |-> UnderdogProp(t[i])] :
                        t \in Sorted(S, le(S))} : f \in picks_of}

\* "Jokić"
Jokic == <<74, 111, 107, 105, 263>>

MaxPropRows == 3

PropRow(id, full_name, opponent, stat, value, choice, day, updated_at) ==
    [id |-> id, full_name |-> full_name, team_name |-> Some("DAL"),
     opponent_name |-> Some(opponent), stat_name |-> stat,
     stat_value |-> value, choice |-> choice,
     american_price |-> Some(-110), decimal_price |-> Some(<<21, 11>>),
     scheduled_at |-> Some([date |-> Days[day], hour |-> 19, minute |-> 30]),
     updated_at |-> updated_at]

\* Rows of underdog_props: a line scraped twice for one game, the line for
\* the next day's game, the other choice, a game of the day before, the
\* plain spelling, two scrapes level on updated_at, another player.
PropPool ==
    { PropRow(1, LukaDoncicAccented, "BOS", "points", <<57, 2>>, "over", 2, 1),
      PropRow(2, LukaDoncicAccented, "BOS", "points", <<59, 2>>, "over", 2, 2),
      PropRow(3, LukaDoncicAccented, "NYK", "points", <<61, 2>>, "over", 3, 3),
      PropRow(4, LukaDoncicAccented, "BOS", "points", <<59, 2>>, "under", 2, 2),
      PropRow(5, LukaDoncicAccented, "MIA", "assists", <<17, 2>>, "over", 1, 5),
      PropRow(6, LukaDoncicPlain, "BOS", "points", <<57, 2>>, "over", 2, 1),
      PropRow(7, LukaDoncicAccented, "BOS", "points", <<55, 2>>, "over", 2, 2),
      PropRow(8, Jokic, "LAL", "assists", <<19, 2>>, "over", 3, 4) }

\* get_player_props: the exact name first, the normalized name where the
\* exact name finds nothing.  The value is the set of results the queries
\* may give, each with the name that matched.
get_player_props(player_name) ==
    LET today    == props_today
        tomorrow == props_tomorrow
        results  == props_query(player_name, today, tomorrow)
    IN  IF \E t \in results : t # <<>>
        THEN {[name |-> player_name, rows |-> t] : t \in results}
        ELSE {[name |-> normalize_name(player_name), rows |-> t] :
                 t \in props_query(normalize_name(player_name), today, tomorrow)}

InitProps ==
    /\ NoRequestButClock
    /\ clock \in 1..Len(Instants)
    /\ fn = "get_player_props"
    /\ args \in {LukaDoncicAccented, LukaDoncicPlain}
    /\ ret = NoRet
    /\ fetched = NoFetch
    /\ db \in [underdog_props : SubsetsUpTo(PropPool, MaxPropRows)]

\* The whole of get_player_props.
CallPlayerProps ==
    /\ fn = "get_player_props"
    /\ ret = NoRet
    /\ \E r \in get_player_props(args) :
          /\ fetched' = [full_name |-> r.name, today |-> props_today,
                         tomorrow |-> props_tomorrow]
          /\ ret' = <<Ok(r.rows)>>
    /\ UNCHANGED <<fn, args, db, request_vars>>

NextProps == CallPlayerProps

SpecProps == InitProps /\ [][NextProps]_vars

-------------------------------------------------------------------------------
(* Properties of get_player_props, checked under SpecProps.                 *)

PropsReturned ==
    fn = "get_player_props" /\ ret # NoRet /\ IsOk(Unwrap(ret))
Props == Unwrap(ret)[2]

\* The stored rows of the name that matched, in the queried date window.
PropsWindow ==
    props_in_window(fetched.full_name, fetched.today, fetched.tomorrow)
StoredProp(e) == CHOOSE r \in db.underdog_props : r.id = e.id

\* The key of each stored row; a game is told by its scheduled_at.
Combination ==
    [r \in db.underdog_props |->
        <<r.full_name, r.stat_name, r.choice, r.scheduled_at>>]
StatAndChoice ==
    [r \in db.underdog_props |-> <<r.full_name, r.stat_name, r.choice>>]

\* The rows returned are, for each key of the window's rows, exactly one
\* row, with the greatest updated_at among the window's rows of that key.
LatestPer(key) ==
    /\ \A i \in 1..Len(Props) :
          LET row == StoredProp(Props[i])
          IN  /\ row \in PropsWindow
              /\ Props[i] = UnderdogProp(row)
              /\ \A q \in PropsWindow :
                    key[q] = key[row] => q.updated_at <= row.updated_at
    /\ \A r \in PropsWindow :
          Cardinality({i \in 1..Len(Props) :
                          key[StoredProp(Props[i])] = key[r]}) = 1

\* C21: for each (player, stat, choice, game) with rows in the queried date
\* window, get_player_props returns exactly the one row with the greatest
\* updated_at: no superseded row, and no combination left out.
C21_LatestPerCombination ==
    PropsReturned => LatestPer(Combination)

\* What the query gives: the latest row for each (player, stat, choice),
\* the games of the window taken together.
C21_LatestPerStatAndChoice ==
    PropsReturned => LatestPer(StatAndChoice)

\* C21's case: the player has a line for today's game and the same line
\* for tomorrow's, and one row is returned.
C21_TodaysLineLeftOut ==
    /\ PropsReturned
    /\ Len(Props) = 1
    /\ \E r, q \in PropsWindow :
          /\ StatAndChoice[r] = StatAndChoice[q]
          /\ DATE(r.scheduled_at) = Some(fetched.today)
          /\ DATE(q.scheduled_at) = Some(fetched.tomorrow)
          /\ Props[1].id = q.id

-------------------------------------------------------------------------------
(* Game logs: the route get_player_game_logs (routes/players.rs) with       *)
(* db::get_player_game_logs and db::get_dnp_players_for_game.  A read of    *)
(* the database either gives its rows or fails with an sqlx error.          *)

\* fn default_limit
default_limit == 20

\* The cap of the route: params.limit.min(82)
MaxGames == 82

\* The cap left out: the limit goes to the query as it came.
cap_limit_uncapped(limit) == limit

\* params.limit.min(82)
cap_limit(limit) == IF limit < MaxGames THEN limit ELSE MaxGames

\* SQLite's LIMIT: a negative limit is no limit.
sql_limit(rows, limit) ==
    IF limit < 0 \/ limit >= Len(rows) THEN rows ELSE SubSeq(rows, 1, limit)

\* The selected columns of one joined row: wl and game_margin come from the
\* schedule row of the game, NULL where it has none or no score yet.
PlayerGameLog(pgl) ==
    LET S == {g \in db.schedule : g.game_id = pgl.game_id}
        s == CHOOSE g \in S : TRUE
        scored == S # {} /\ s.home_score # None /\ s.away_score # None
        home == Unwrap(s.home_score)
        away == Unwrap(s.away_score)
        at_home == pgl.team_id = Some(s.home_team_id)
    IN  [game_id |-> pgl.game_id, player_id |-> pgl.player_id,
         team_id |-> pgl.team_id, game_date |-> pgl.game_date,
         pts |-> pgl.pts,
         wl |-> IF ~scored THEN None
                ELSE IF at_home
                     THEN Some(IF home > away THEN "W" ELSE "L")
                     ELSE Some(IF away > home THEN "W" ELSE "L"),
         game_margin |-> IF ~scored THEN None
                         ELSE IF at_home THEN Some(home - away)
                              ELSE Some(away - home)]

\* db::get_player_game_logs: WHERE pgl.player_id = ? ORDER BY pgl.game_date
\* DESC LIMIT ?  (the game dates of a player's rows are distinct).
db_get_player_game_logs(player_id, limit) ==
    LET S    == {r \in db.player_game_logs : r.player_id = player_id}
        rows == [i \in 1..Cardinality(S) |->
                    CHOOSE r \in S :
                        Cardinality({q \in S : q.game_date > r.game_date}) = i - 1]
    IN  sql_limit([i \in 1..Len(rows) |-> PlayerGameLog(rows[i])], limit)

\* SELECT team_id FROM player_stats WHERE player_id = ?, fetch_optional and
\* flatten.
player_team_id_query(player_id) ==
    IF \E r \in db.player_stats : r.player_id = player_id
    THEN {r.team_id : r \in {x \in db.player_stats : x.player_id = player_id}}
    ELSE {None}

valid_stats ==
    {"points", "assists", "rebounds", "threes_made", "threes_attempted",
     "fg_attempted", "pts_plus_ast", "pts_plus_reb", "ast_plus_reb",
     "pts_plus_ast_plus_reb", "steals", "blocks", "steals_plus_blocks",
     "turnovers"}

\* db::get_dnp_players_for_game: the team's players with no log for the
\* game, ORDER BY season_avg DESC LIMIT 2; an unknown column gives no rows.
get_dnp_players_for_game(game_id, team_id, stat_column) ==
    IF stat_column \notin valid_stats THEN {<<>>}
    ELSE LET S == {r \in db.player_stats :
                      /\ r.team_id = Some(team_id)
                      /\ ~\E g \in db.player_game_logs :
                            g.game_id = game_id /\ g.player_id = r.player_id}
             le == [p \in S \X S |-> RGe(p[1][stat_column], p[2][stat_column])]
         IN  {sql_limit([i \in 1..Len(t) |->
                            [player_id |-> t[i].player_id,
                             player_name |-> t[i].player_name,
                             position |-> t[i].position,
                             season_avg |-> t[i][stat_column]]], 2) :
                 t \in Sorted(S, le)}

\* The reads of one request: the game logs, the player's team, and the DNP
\* players of the i-th game log.
ReadGameLogs == <<"get_player_game_logs", 0>>
ReadTeamId == <<"player_team_id", 0>>
ReadDnp(i) == <<"get_dnp_players_for_game", i>>

\* The loop of the route over the game logs from the i-th on: a failed DNP
\* read gives the default, the empty list.
RECURSIVE logs_with_dnp(_, _, _, _, _)
logs_with_dnp(game_logs, i, player_team_id, stat_column, failed) ==
    IF i > Len(game_logs) THEN {<<>>}
    ELSE LET dnp == IF player_team_id = None \/ ReadDnp(i) \in failed
                    THEN {<<>>}
                    ELSE get_dnp_players_for_game(
                             game_logs[i].game_id, Unwrap(player_team_id),
                             stat_column)
         IN  {<<[game_log |-> game_logs[i], dnp_players |-> d]>> \o rest :
                 d \in dnp,
                 rest \in logs_with_dnp(game_logs, i + 1, player_team_id,
                                        stat_column, failed)}

\* The route, given the reads that would fail: the responses it may give,
\* each with the reads that were made and failed.
get_player_game_logs(player_id, limit, stat_category, failed) ==
    IF ReadGameLogs \in failed
    THEN {[response |-> Err("INTERNAL_SERVER_ERROR"),
           failures |-> {ReadGameLogs}]}
    ELSE IF ReadTeamId \in failed
    THEN {[response |-> Err("INTERNAL_SERVER_ERROR"),
           failures |-> {ReadTeamId}]}
    ELSE LET game_logs   == db_get_player_game_logs(player_id, cap_limit(limit))
             stat_column == unwrap_or(stat_category, "points")
             dnp_reads(team) ==
                 IF team = None \/ stat_column \notin valid_stats THEN {}
                 ELSE {ReadDnp(i) : i \in 1..Len(game_logs)}
         IN  UNION {{[response |-> Ok(l),
                      failures |-> failed \cap dnp_reads(team)] :
                         l \in logs_with_dnp(game_logs, 1, team, stat_column,
                                             failed)} :
                       team \in player_team_id_query(player_id)}

MaxLogs == 84
MaxFailingDnp == 2

\* Numbers of game logs the player has stored.
LogCounts ==
    {0, 1, 2, default_limit + 1, MaxGames} \cup (MaxGames + 1)..MaxLogs

\* The limit query parameter: omitted, or an integer.
LimitValues == {-1, 0, 1, default_limit, MaxGames, MaxGames + 1}

\* serde's default for an omitted limit.
GameLogsQuery_limit(limit) == unwrap_or(limit, default_limit)

StatsRow(player, team, points, assists) ==
    [player_id |-> player, player_name |-> "Player", team_id |-> team,
     position |-> Some("G"), points |-> points, assists |-> assists]

\* player_stats: empty; the player without a team; the player and three
\* team mates.
GameLogStatsTables ==
    { {},
      {StatsRow(1, None, <<25, 1>>, <<8, 1>>)},
      {StatsRow(1, Some(10), <<25, 1>>, <<8, 1>>),
       StatsRow(2, Some(10), <<20, 1>>, <<5, 1>>),
       StatsRow(3, Some(10), <<10, 1>>, <<6, 1>>),
       StatsRow(4, Some(10), <<5, 1>>, <<2, 1>>)} }

\* player_game_logs with n games of the player, game i on day i, and team
\* mate 2 playing in the latest of them; schedule with that game's score.
GameLogRow(game, player) ==
    [game_id |-> game, player_id |-> player, team_id |-> Some(10),
     game_date |-> game, pts |-> Some(20)]
GameLogTable(n) ==
    {GameLogRow(i, 1) : i \in 1..n} \cup {GameLogRow(n, 2) : i \in 1..n}
ScheduleTable(n) ==
    {[game_id |-> n, home_team_id |-> 10, home_score |-> Some(110),
      away_score |-> Some(104)] : i \in 1..n}

InitGameLogs ==
    /\ NoRequest
    /\ fn = "get_player_game_logs"
    /\ args \in [player_id : {1},
                 limit : {None} \cup {Some(k) : k \in LimitValues},
                 stat_category : {None, Some("assists"), Some("minutes")}]
    /\ ret = NoRet
    /\ fetched = NoFetch
    /\ \E n \in LogCounts, stats \in GameLogStatsTables :
          db = [player_game_logs |-> GameLogTable(n),
                schedule |-> ScheduleTable(n),
                player_stats |-> stats]

\* The whole of the route, with the reads that fail chosen by the database.
CallGameLogs ==
    /\ fn = "get_player_game_logs"
    /\ ret = NoRet
    /\ \E failed \in SUBSET ({ReadGameLogs, ReadTeamId}
                               \cup {ReadDnp(i) : i \in 1..MaxFailingDnp}) :
          \E r \in get_player_game_logs(
                       args.player_id, GameLogsQuery_limit(args.limit),
                       args.stat_category, failed) :
              /\ fetched' = [failures |-> r.failures]
              /\ ret' = <<r.response>>
    /\ UNCHANGED <<fn, args, db, request_vars>>

NextGameLogs == CallGameLogs

SpecGameLogs == InitGameLogs /\ [][NextGameLogs]_vars

-------------------------------------------------------------------------------
(* Properties of the game-logs route, checked under SpecGameLogs.           *)

GameLogsAnswered == fn = "get_player_game_logs" /\ ret # NoRet
GameLogsReturned == GameLogsAnswered /\ IsOk(Unwrap(ret))
GameLogs == Unwrap(ret)[2]

\* C23: a request during which a read of the database failed ends in a
\* failure of the request, never in a successful response.
C23_FailedReadFailsRequest ==
    (GameLogsAnswered /\ fetched.failures # {}) => ~IsOk(Unwrap(ret))

\* What holds: a failure of the game-logs read or of the team read fails
\* the request.
C23_FailedFirstReadsFailRequest ==
    (GameLogsAnswered /\ fetched.failures \cap {ReadGameLogs, ReadTeamId} # {})
        => ~IsOk(Unwrap(ret))

\* C23's case: the DNP read of the first game failed, the response is a
\* success whose first game has no DNP players while the second has some.
C23_DnpFailureSwallowed ==
    /\ GameLogsReturned
    /\ fetched.failures = {ReadDnp(1)}
    /\ Len(GameLogs) >= 2
    /\ GameLogs[1].dnp_players = <<>>
    /\ GameLogs[2].dnp_players # <<>>

\* C25: the response holds at most 82 game logs whatever the limit
\* parameter, and at most 20 where the parameter is omitted.
C25_AtMostMaxGames ==
    GameLogsReturned =>
        /\ Len(GameLogs) <= MaxGames
        /\ args.limit = None => Len(GameLogs) <= default_limit

\* What holds: the bounds where the limit is omitted or not negative.
C25_AtMostMaxGamesForNonNegative ==
    GameLogsReturned =>
        /\ (args.limit = None \/ Unwrap(args.limit) >= 0)
              => Len(GameLogs) <= MaxGames
        /\ args.limit = None => Len(GameLogs) <= default_limit
        /\ (args.limit # None /\ Unwrap(args.limit) >= 0)
              => Len(GameLogs) <= Unwrap(args.limit)

\* C25's case: a negative limit and more than 82 game logs in the response.
C25_NegativeLimitReturnsAll ==
    /\ GameLogsReturned
    /\ args.limit # None /\ Unwrap(args.limit) < 0
    /\ Len(GameLogs) > MaxGames

-------------------------------------------------------------------------------
(* Missing lookups in the zone matchups, checked under SpecAssist and       *)
(* SpecZones.                                                               *)

PlayerMissing == ~\E r \in db.player_stats : r.player_id = args.player_id
OpponentMissing == ~\E r \in db.teams : r.team_id = args.opponent_team_id

\* C24: an assist-zone matchup request whose player or opponent team has
\* no row in the cache is answered with a result object, never with a
\* failure.
C24_MissingLookupAnswered ==
    (/\ fn = "get_assist_zones_with_team_defense"
     /\ ret # NoRet
     /\ PlayerMissing \/ OpponentMissing) => IsOk(Unwrap(ret))

\* C24's case: the player has no row in player_stats and the assist-zone
\* matchup has failed.
C24_MissingPlayerFailsAssistMatchup ==
    /\ fn = "get_assist_zones_with_team_defense"
    /\ ret # NoRet
    /\ PlayerMissing
    /\ ~IsOk(Unwrap(ret))

\* The shooting-zone matchup does answer a missing lookup: the name reads
\* "Unknown" and the six zones are listed.
C24_ShootingMatchupAnswersUnknown ==
    (ZonesReturned /\ (PlayerMissing \/ OpponentMissing)) =>
        /\ PlayerMissing => Unwrap(ret).player_name = "Unknown"
        /\ OpponentMissing => Unwrap(ret).opponent_name = "Unknown"
        /\ Len(Zones) = Len(SixZones)

-------------------------------------------------------------------------------
(* Further properties of the top-picks request, checked under Spec.         *)

\* The books of a group with the largest absolute edge among its matching
\* books, and the first of them in the order the rows were received.
LargestEdge(k) ==
    {i \in Matching(k) :
        \A m \in Matching(k) : RGe(RAbs(Edge(k, i)), RAbs(Edge(k, m)))}
FirstLargest(k) == Least(LargestEdge(k))

\* C26: the pick of a group names as best_book, and takes its direction
\* and fair probability from, the first book in row order among those at
\* the reference line (within 0.01) with a fair probability defined whose
\* absolute edge is the largest; a later book of equal absolute edge does
\* not replace it, and no book 0.01 or more off the line is chosen.
C26_FirstBookOfLargestEdge ==
    Done =>
        \A j \in 1..Len(collected) :
            LET p == collected[j]
                k == PickKey(p)
                i == FirstLargest(k)
            IN  /\ LargestEdge(k) # {}
                /\ p.best_book = all_rows[i].sportsbook
                /\ p.direction =
                      IF RGt(Edge(k, i), RZero) THEN "OVER" ELSE "UNDER"
                /\ p.best_book_devigged_prob =
                      Tenths(IF RGt(Edge(k, i), RZero) THEN FairOver(i)
                             ELSE RSub(ROne, FairOver(i)))
                /\ RLt(RAbs(RSub(all_rows[i].book_line, p.ud_line)), <<1, 100>>)

\* C26's case: two books of a group at the line have the same absolute
\* edge, the first on the under and the second on the over, and the pick
\* is the first's.
C26_EqualEdgesFirstKept ==
    /\ Done
    /\ \E j \in 1..Len(collected) :
          LET k == PickKey(collected[j])
          IN  /\ Cardinality(LargestEdge(k)) = 2
              /\ \E i \in LargestEdge(k) :
                    /\ i # FirstLargest(k)
                    /\ all_rows[i].sportsbook # collected[j].best_book
                    /\ RGt(Edge(k, i), RZero)
              /\ collected[j].direction = "UNDER"

\* The response of a run over the same rows with the same filter answers
\* in which the map hands out the groups in the given order.
PicksUnder(order) ==
    Truncate(SortByEdgeDesc(
        CollectPicks(GroupRows(KeepNotStarted(all_rows, started), <<>>),
                     order)), TopN)
OrdersOfRun ==
    HashOrders(Len(GroupRows(KeepNotStarted(all_rows, started), <<>>)))

\* C27: another run over the same candidate rows at the same instant
\* returns the same picks in the same order.
C27_SamePicksOnEveryRun ==
    Done => \A order \in OrdersOfRun : PicksUnder(order) = picks

\* What holds: every run returns the same edge_pct values in the same
\* positions.
C27_SameEdgesOnEveryRun ==
    Done =>
        \A order \in OrdersOfRun :
            /\ Len(PicksUnder(order)) = Len(picks)
            /\ \A j \in 1..Len(picks) :
                  PicksUnder(order)[j].edge_pct = picks[j].edge_pct

\* C27's case: two picks of equal edge_pct, returned with the group of the
\* later rows first.
C27_TiedPicksInMapOrder ==
    /\ Done
    /\ Len(picks) = 2
    /\ picks[1].edge_pct = picks[2].edge_pct
    /\ PickKey(picks[1]) = RowKey(2)
    /\ PickKey(picks[2]) = RowKey(1)

\* The Eastern calendar date at the instant of clock index c, from the
\* table of wall times: the date has_game_started takes as today.
EasternToday(c) == Days[EtWall[c][1]]

\* C28: a request without a game_date parameter queries the date that is
\* today in US Eastern time at an instant of the request, whatever the
\* server's time zone.
C28_DefaultDateIsEasternToday ==
    (pc # "start" /\ query = None) =>
        \E c \in (clock - elapsed)..clock : game_date = Some(EasternToday(c))

\* What holds: the default date is today in the server's own time zone.
C28_DefaultDateIsServerToday ==
    (pc # "start" /\ query = None) =>
        \E c \in (clock - elapsed)..clock :
            game_date = Some(with_timezone(Instants[c], server_tz).date)

\* C28's case: on a server running in UTC a request without game_date
\* arrives in the evening, Eastern time, and has queried the next day.
C28_UtcServerQueriesTomorrow ==
    /\ pc = "done"
    /\ query = None
    /\ server_tz = 0
    /\ elapsed = 0
    /\ EtWall[clock][2] >= 19
    /\ game_date # Some(EasternToday(clock))
    /\ Unwrap(game_date) = Days[EtWall[clock][1] + 1]

\* C29: for every pick, the winning book's fair probability of the
\* direction taken less the reference book's implied probability of that
\* direction is the absolute edge, before any rounding, and is at least
\* 0.005: the direction taken is the side on which the sharp book's
\* probability exceeds the reference's.
C29_TakenSideExceedsReferenceByEdge ==
    Done =>
        \A j \in 1..Len(collected) :
            LET p     == collected[j]
                k     == PickKey(p)
                i     == FirstLargest(k)
                over  == p.direction = "OVER"
                sharp == IF over THEN FairOver(i) ELSE RSub(ROne, FairOver(i))
                ref   == IF over THEN RefProb(k) ELSE RSub(ROne, RefProb(k))
            IN  /\ RSub(sharp, ref) = RAbs(Edge(k, i))
                /\ RGe(RSub(sharp, ref), <<1, 200>>)
                /\ p.edge_pct = Tenths(RSub(sharp, ref))
                /\ p.best_book_devigged_prob = Tenths(sharp)
                /\ p.ud_implied_prob = Tenths(ref)

\* C29's case: an UNDER pick whose book gives the under exactly 0.005 more
\* than the reference does.
C29_UnderByHalfPoint ==
    /\ Done
    /\ \E j \in 1..Len(collected) :
          LET k == PickKey(collected[j])
          IN  /\ collected[j].direction = "UNDER"
              /\ RSub(RSub(ROne, FairOver(FirstLargest(k))),
                      RSub(ROne, RefProb(k))) = <<1, 200>>

-------------------------------------------------------------------------------
(* The rank shown by the play-type matchup, checked under SpecPlayTypes.    *)

\* C30: the tables read once for the request, every entry of the returned
\* play-type matchup has an opp_rank of at least 1 and at most the number
\* of defensive rows stored for its play type; the fallback 0 is never
\* shown.
C30_RankWithinRowsOfPlayType ==
    PlayTypesReturned =>
        \A i \in 1..Len(Matchups) :
            /\ Matchups[i].opp_rank >= 1
            /\ Matchups[i].opp_rank
                  <= Cardinality(RowsOfPlayType(Matchups[i].play_type))
            /\ Matchups[i].opp_rank # 0

\* C30's case: an entry ranked last of the three rows of its play type,
\* beside an entry ranked first.
C30_RankedLastOfThree ==
    /\ PlayTypesReturned
    /\ \E i, j \in 1..Len(Matchups) :
          /\ Matchups[i].opp_rank = 3
          /\ Cardinality(RowsOfPlayType(Matchups[i].play_type)) = 3
          /\ Matchups[j].opp_rank = 1

==============================================================================
